---------------------------- MODULE Spec2Model ----------------------------
(***************************************************************************)
(* State-machine model of the nbfc-linux service core (src/src/service.c), *)
(* the control server (src/src/generated/client.help.h, server.c part) and *)
(* the service configuration (src/unnamed/part_000).                       *)
(*                                                                         *)
(* C arrays are modelled as functions over 0..size-1 so that indices are   *)
(* the indices of the code.                                                *)
(***************************************************************************)
EXTENDS Integers, Sequences, FiniteSets, TLC

(***************************************************************************)
(* Bounds of the model                                                     *)
(***************************************************************************)
\* largest number of FanConfigurations of a model config
MaxFans == 2
\* number of connection workers that can exist at the same time
MaxWorkers == 2
\* number of consecutive ticks the environment lets fail
MaxFaults == 1
\* number of members of a set-fan-speed message besides "Command"
MaxKeys == 3
\* resolution of a JSON double: a double is a multiple of 1/DoubleSteps,
\* while a C float is a whole number (the grid of float is the coarser one)
DoubleSteps == 4

(***************************************************************************)
(* Program constants                                                       *)
(***************************************************************************)
\* service.c:219  if (++failures >= 100)
Service_Max_Failures == 100
Server_Max_Failures == 100
\* service.c:184  fabs(current - target) > 15
ReInitThreshold == 15
\* service.c:35   Initialized_6_Temperature_Filter
LastStage == 6

VARIABLES
  \* ---- environment fixed at start: command line and files on disk
  read_only,            \* options.read_only
  modelFanCount,        \* FanConfigurations.size of the model config file
  workerLimit,          \* number of clients that connect at the same time
  temperatures,         \* temperatures the sensors report while it runs
  faultLimit,           \* consecutive ticks in which an EC / sensor step fails
  configWritable,       \* the service config file can be written
  \* ---- service.c globals
  Service_State,        \* enum Service_Initialization, 0..6
  Service_Fans,         \* array_of(FanTemperatureControl)
  fansFreed,            \* Service_Fans.data has been passed to Mem_Free
  TargetFanSpeeds,      \* service_config.TargetFanSpeeds
  persisted,            \* TargetFanSpeeds last written to the config file
  Service_Lock,         \* holder of the mutex: Unlocked or a thread
  failures,             \* static int failures of Service_Loop
  quit,                 \* global quit flag
  \* ---- main thread
  mainPc,               \* position of the main thread
  e,                    \* Error* e of Service_Init / Service_Loop
  re_init_required,     \* local of Service_Loop
  cleanupRet,           \* where Service_Cleanup returns to
  \* ---- resources acquired by Service_Init
  res,                  \* per resource: "none", "held", "freed", "double"
  filt,                 \* per fan temperature filter: same values
  \* ---- control server
  serverPc,             \* server thread: "none", "running", "stopped"
  Server_Run_failures,  \* int failures of Server_Run
  serverObs,            \* observation: the failed iterations of Server_Run in a row
  serverFaults,         \* environment: accept() and pthread_create() can fail
  w,                    \* per connection worker: record of its locals
  \* ---- observation (history) variables
  teardownLog,          \* stages torn down by the running/last Service_Cleanup
  failStage,            \* Service_State when Service_Init jumped to error, or -1
  ecLog,                \* <<issuer, kind>> of the EC writes issued while the
                        \* service is read-only
  tickBefore,           \* Service_Fans when the running tick took the lock
  tickTorn,             \* the fans the tick just ended has left are neither
                        \* those before it nor those of a complete tick
  stepFailed,           \* a step of the current/last tick reported an error
  realFailures,         \* consecutive ticks in which a step reported an error
  unlockedMutation,     \* functions that mutated shared state without holding
                        \* Service_Lock while the server thread or a worker existed
  ub,                   \* undefined behaviour the run has executed
  registersWritten,     \* observation: the registers that Service_Init or the
                        \* tick in progress has applied a configuration to
  tickSteps,            \* observation: the calls the tick in progress has made
                        \* on the fans and the EC, in order
  \* ---- functions applied on their own (specification Functions)
  calls,                \* the functions applied so far, in order
  env,                  \* the globals, files and devices they read and write
  ret                   \* what the last one returned

\* the variables of the functions applied on their own
unitVars == << calls, env, ret >>

\* the variables of the service
progVars == << read_only, modelFanCount, workerLimit, temperatures, faultLimit,
           configWritable, Service_State,
           Service_Fans, fansFreed, TargetFanSpeeds, persisted, Service_Lock,
           failures, quit, mainPc, e, re_init_required, cleanupRet,
           res, filt, serverPc, Server_Run_failures, serverObs, serverFaults,
           w, teardownLog, failStage, ecLog,
           tickBefore, tickTorn, stepFailed,
           realFailures, unlockedMutation, ub, registersWritten,
           tickSteps >>

vars == << unitVars, progVars >>

(***************************************************************************)
(* Helpers                                                                 *)
(***************************************************************************)
Size(a) == Cardinality(DOMAIN a)

EmptyArray == [i \in {} |-> 0]

Workers == 1..MaxWorkers

\* threads, as holders of Service_Lock
Unlocked == << >>
MainThread == << "main", 0 >>
WorkerThread(x) == << "worker", x >>

FanIdx == 0..(MaxFans - 1)

ResNames == {"service_config", "model_config", "fans", "ec", "sensors"}

\* Mem_Free / Close / Cleanup of a resource
Release(st) == IF st = "held" THEN "freed" ELSE "double"

Arr(s) == [i \in 0..(Len(s) - 1) |-> s[i + 1]]

Abs(x) == IF x < 0 THEN -x ELSE x

(***************************************************************************)
(* Faulty variants of definitions below: each is what a plausible fault    *)
(* would make of the definition it is named after in its comment           *)
(***************************************************************************)
\* Service_Loop_LockAcquired, Server_Handle_Client_LockAcquired: the lock
\* is not waited for
LockAlwaysGranted == TRUE

\* the tests of options.read_only: the write is done in any case
WritesAlways == TRUE

\* Selected: the Fan argument is ignored
SelectsEveryFan(fan, i) == TRUE

\* Service_Cleanup_State: Service_Cleanup leaves Service_State as it was
KeepsState(c) == c

\* Service_Cleanup_Next: a case label is skipped
SkipsACase(c) == c - 2

\* ThresholdsError: two thresholds with the same UpThreshold are accepted
AcceptsDuplicates(ths) ==
  IF \E j \in DOMAIN ths : ths[j].UpThreshold < ths[j].DownThreshold
  THEN "UpThreshold cannot be less than DownThreshold" ELSE ""

\* CopiedData: dest->data = src->data, the array is not copied
SharesData(src, j) == src

\* EmbeddedControllerType_FromString: the names of older versions are not
\* known
KnowsNoAlias(str) ==
  CASE str = "ec_sys" -> "EmbeddedControllerType_ECSysLinux"
    [] str = "acpi_ec" -> "EmbeddedControllerType_ECSysLinuxACPI"
    [] str = "dev_port" -> "EmbeddedControllerType_ECLinux"
    [] str = "dummy" -> "EmbeddedControllerType_ECDummy"
    [] OTHER -> "EmbeddedControllerType_Unset"

\* Service_Loop_FanSteps: the pending write is flushed before
\* Fan_SetTemperature is called
FlushesFirst(i) ==
  << << "FanTemperatureControl_UpdateFanTemperature", i >> >> \o
  (IF ~read_only THEN << << "Fan_ECFlush", i >> >> ELSE << >>) \o
  << << "Fan_SetTemperature", i >> >>

\* Service_Loop_ErrorLabel: a failed step does not end the tick, the second
\* loop is run all the same
ContinuesAfterError == "tick_fan"

\* Service_WriteTargetFanSpeedsToConfig_Locks: the function takes
\* Service_Lock itself
LocksAgain == TRUE

\* BitAnd: value &= mask leaves value as it is
AndKeepsValue(a, b) == a

\* ReInitRequired: a difference of 15 requires the re-initialization too
OffByFifteenOrMore(f) ==
  Abs(f.currentSpeed - f.targetSpeed) >= 15

\* Server_Run_Counts: failures is not set to 0 after a successful Server_Loop
CountsEveryFailure(n, failed) == IF failed THEN n + 1 ELSE n

\* Server_Handle_Client_Error: the socket is closed, no reply is sent
ClosesWithoutReply(err) == << "close" >>

\* ClampTargetFanSpeed: a negative entry becomes 0
ClampsNegativeToZero(f) ==
  IF f > 100 THEN 100 ELSE IF f < 0 /\ f # -1 THEN 0 ELSE f

\* EmbeddedControllerType_ToString: every type is written as "ec_sys"
NamesEveryTypeEcSys(t) == "ec_sys"

\* ApplyTargetFanSpeeds: the loop over TargetFanSpeeds is not run
AppliesNoEntry(fans, tfs) == fans

\* WrittenTargetFanSpeeds: the target speed is written, which is 100 while
\* the fan is critical, instead of the requested speed
WritesTargetSpeeds(fans, fancount) ==
  [i \in 0..(fancount - 1) |->
     IF i \in DOMAIN fans
     THEN IF fans[i].mode = "Auto" THEN -1 ELSE fans[i].targetSpeed
     ELSE 0]

(***************************************************************************)
(* Inputs of the environment                                               *)
(***************************************************************************)
\* model config value handed to Fan_Init
CriticalTemperature == 75

\* temperatures the sensors of a fan can report
Temperatures == {50, 80}

\* fan speeds (percent) the EC can report for a fan
SpeedReadings == {15}

\* TargetFanSpeeds arrays a service config file can hold
FileTargetFanSpeeds == { Arr(<< >>), Arr(<<50, -1>>) }

\* further TargetFanSpeeds arrays of a service config file: fewer entries
\* than fans, entries to be clamped
BootTargetFanSpeeds ==
  { Arr(<<50>>), Arr(<<-1, 0>>), Arr(<<150, -5>>) }

(***************************************************************************)
(* Default temperature thresholds (model_config.c)                         *)
(***************************************************************************)
Config_DefaultTemperatureThresholds ==
  << [UpThreshold |-> 60, DownThreshold |-> 0,  FanSpeed |-> 0],
     [UpThreshold |-> 63, DownThreshold |-> 48, FanSpeed |-> 10],
     [UpThreshold |-> 66, DownThreshold |-> 55, FanSpeed |-> 20],
     [UpThreshold |-> 68, DownThreshold |-> 59, FanSpeed |-> 50],
     [UpThreshold |-> 71, DownThreshold |-> 63, FanSpeed |-> 70],
     [UpThreshold |-> 75, DownThreshold |-> 67, FanSpeed |-> 100] >>

(***************************************************************************)
(* Fan (fan.c) and threshold manager                                       *)
(***************************************************************************)
SetMax(S) == CHOOSE x \in S : \A y \in S : y <= x

SetMin(S) == CHOOSE x \in S : \A y \in S : x <= y

\* threshold index selected for temperature t when prev was selected before
ThresholdManager_AutoSelectThreshold(prev, t) ==
  LET T    == Config_DefaultTemperatureThresholds
      up   == {j \in (prev + 1)..Len(T) : t >= T[j].UpThreshold}
      down == {j \in 1..Len(T) : T[j].UpThreshold <= t}
  IN  IF up # {} THEN SetMax(up)
      ELSE IF t < T[prev].DownThreshold
           THEN (IF down # {} THEN SetMax(down) ELSE 1)
           ELSE prev

\* a FanTemperatureControl after Mem_Calloc and Fan_Init
Fan_Init ==
  [mode |-> "Auto", requestedSpeed |-> 0, targetSpeed |-> 0,
   currentSpeed |-> 0, temperature |-> 0, isCritical |-> FALSE,
   pending |-> FALSE, threshold |-> 1]

Clamp(x, lo, hi) == IF x < lo THEN lo ELSE IF x > hi THEN hi ELSE x

Fan_SetAutoSpeed(f) == [f EXCEPT !.mode = "Auto"]

Fan_SetFixedSpeed(f, speed) ==
  [f EXCEPT !.mode = "Fixed",
            !.requestedSpeed = Clamp(speed, 0, 100),
            !.targetSpeed = IF f.isCritical THEN 100 ELSE Clamp(speed, 0, 100),
            !.pending = TRUE]

Fan_SetTemperature(f, t) ==
  LET crit == t >= CriticalTemperature
      thr  == IF ~crit /\ f.mode = "Auto"
              THEN ThresholdManager_AutoSelectThreshold(f.threshold, t)
              ELSE f.threshold
  IN  [f EXCEPT !.temperature = t,
                !.isCritical = crit,
                !.threshold = thr,
                !.targetSpeed =
                   IF crit THEN 100
                   ELSE IF f.mode = "Auto"
                        THEN Config_DefaultTemperatureThresholds[thr].FanSpeed
                        ELSE f.requestedSpeed,
                !.pending = TRUE]

\* Fan_ECFlush writes the pending value, if any, and clears it
Fan_ECFlush(f) == [f EXCEPT !.pending = FALSE]

Fan_UpdateCurrentSpeed(f, reading) == [f EXCEPT !.currentSpeed = reading]

Fan_GetCurrentSpeed(f) == f.currentSpeed

Fan_GetTargetSpeed(f) == f.targetSpeed

Fan_GetRequestedSpeed(f) == f.requestedSpeed

\* the per-fan object of a status reply (Server_Command_Status)
Reported(f) ==
  [Temperature |-> f.temperature, AutoMode |-> (f.mode = "Auto"),
   Critical |-> f.isCritical, CurrentSpeed |-> Fan_GetCurrentSpeed(f),
   TargetSpeed |-> Fan_GetTargetSpeed(f),
   RequestedSpeed |-> Fan_GetRequestedSpeed(f)]

(***************************************************************************)
(* Initial state: the process has started, nothing is initialized          *)
(***************************************************************************)
NoRequest == [fanGiven |-> FALSE, fan |-> 0, auto |-> FALSE, speed |-> 0]

IdleWorker ==
  [pc |-> "none", cmd |-> "none", fan |-> -1, speed |-> -2, i |-> 0,
   err |-> "", reply |-> << >>, sent |-> << >>,
   \* the replies sent on the socket and its close(), once the handler is
   \* through its last statements
   socket |-> << >>,
   \* observation: what the request says, read independently of the parser
   claimReject |-> FALSE, claimReply |-> "", req |-> NoRequest,
   before |-> << >>]

\* what is recorded of the writes to the EC
ecVars == << ecLog, registersWritten, tickSteps >>

envVars == << read_only, modelFanCount, workerLimit, temperatures,
             faultLimit, configWritable, serverFaults >>

\* no iteration of Server_Run has failed
NoServerFailure == [consecutive |-> 0, shutdown |-> FALSE]

\* the server thread: where it is, and the local failures of Server_Run
serverVars == << serverPc, Server_Run_failures, serverObs >>

tickObs == << tickBefore, tickTorn, stepFailed, realFailures >>

InitCommon ==
  /\ Service_State = 0
  /\ Service_Fans = EmptyArray
  /\ fansFreed = FALSE
  /\ TargetFanSpeeds = EmptyArray
  /\ Service_Lock = Unlocked
  /\ failures = 0
  /\ quit = FALSE
  /\ mainPc = "init_service_config"
  /\ e = "ok"
  /\ re_init_required = FALSE
  /\ cleanupRet = "none"
  /\ res = [r \in ResNames |-> "none"]
  /\ filt = [i \in FanIdx |-> "none"]
  /\ serverPc = "none"
  /\ Server_Run_failures = 0
  /\ serverObs = NoServerFailure
  /\ w = [x \in Workers |-> IdleWorker]
  /\ teardownLog = << >>
  /\ failStage = -1
  /\ ecLog = {}
  /\ registersWritten = << >>
  /\ tickSteps = << >>
  /\ tickBefore = EmptyArray
  /\ tickTorn = FALSE
  /\ stepFailed = FALSE
  /\ realFailures = 0
  /\ unlockedMutation = {}
  /\ ub = {}

\* a single client at a time, in every configuration and with failing
\* hardware and files
OneClient ==
  /\ workerLimit = 1
  /\ serverFaults = FALSE
  /\ read_only \in BOOLEAN
  /\ modelFanCount \in 0..MaxFans
  /\ temperatures = Temperatures
  /\ faultLimit = MaxFaults
  /\ configWritable \in BOOLEAN
  /\ persisted \in FileTargetFanSpeeds

\* clients connecting at the same time, with every fan configured and
\* steady hardware
ConcurrentClients ==
  /\ workerLimit = MaxWorkers
  /\ serverFaults = FALSE
  /\ read_only = FALSE
  /\ modelFanCount = MaxFans
  /\ temperatures = {SetMin(Temperatures)}
  /\ faultLimit = 0
  /\ configWritable = TRUE
  /\ persisted = EmptyArray

\* no client, and hardware that can fail in every tick
FailingHardware ==
  /\ workerLimit = 0
  /\ serverFaults = FALSE
  /\ read_only \in BOOLEAN
  /\ modelFanCount = 1
  /\ temperatures = {SetMin(Temperatures)}
  /\ faultLimit = Service_Max_Failures
  /\ configWritable = TRUE
  /\ persisted = EmptyArray

\* no client and steady hardware, with every kind of TargetFanSpeeds in the
\* service config file
Boot ==
  /\ workerLimit = 0
  /\ serverFaults = FALSE
  /\ read_only = FALSE
  /\ modelFanCount \in 0..MaxFans
  /\ temperatures = {SetMin(Temperatures)}
  /\ faultLimit = 0
  /\ configWritable = TRUE
  /\ persisted \in BootTargetFanSpeeds

\* a single client, steady hardware, and a server whose accept() and
\* pthread_create() can fail
FailingServer ==
  /\ workerLimit = 1
  /\ serverFaults = TRUE
  /\ read_only = TRUE
  /\ modelFanCount = 1
  /\ temperatures = {SetMin(Temperatures)}
  /\ faultLimit = 0
  /\ configWritable = TRUE
  /\ persisted = EmptyArray

\* no function is applied on its own
NoCalls == calls = << >> /\ env = << >> /\ ret = << >>

Init ==
  /\ InitCommon
  /\ (OneClient \/ ConcurrentClients \/ FailingHardware \/ Boot \/ FailingServer)
  /\ NoCalls

(***************************************************************************)
(* Service configuration (service_config.c)                                *)
(***************************************************************************)
\* the clamping of one TargetFanSpeeds entry by ServiceConfig_Init
ClampTargetFanSpeed(f) ==
  LET g == IF f > 100 THEN 100 ELSE f
  IN  IF g < 0 /\ g # -1 THEN -1 ELSE g

\* outcomes of ServiceConfig_Init: where it returns
ServiceConfig_Init_Outcomes ==
  {"parse_error", "fromjson_error", "validate_error", "source_error", "ok"}

\* whether service_config holds heap data when ServiceConfig_Init returns:
\* it does once ServiceConfig_FromJson has filled it
ServiceConfig_Init_Holds(o) == o \in {"validate_error", "source_error", "ok"}

(***************************************************************************)
(* Service_Init, one action per initialization step                        *)
(***************************************************************************)
\* goto error: Service_Cleanup() is entered with the current Service_State
GotoError(state) ==
  /\ e' = "err"
  /\ mainPc' = "cleanup"
  /\ cleanupRet' = "init_failed"
  /\ failStage' = state
  /\ teardownLog' = << >>

NoError(next) ==
  /\ mainPc' = next
  /\ UNCHANGED << e, cleanupRet, failStage, teardownLog >>

Service_Init_ServiceConfig ==
  /\ mainPc = "init_service_config"
  /\ \E o \in ServiceConfig_Init_Outcomes :
       /\ res' = [res EXCEPT !["service_config"] =
                    IF ServiceConfig_Init_Holds(o) THEN "held" ELSE @]
       /\ IF o = "ok"
          THEN /\ TargetFanSpeeds' =
                    [i \in DOMAIN persisted |->
                       ClampTargetFanSpeed(persisted[i])]
               /\ Service_State' = 1
               /\ NoError("init_model_config")
          ELSE /\ UNCHANGED << TargetFanSpeeds, Service_State >>
               /\ GotoError(Service_State)
  /\ UNCHANGED << envVars, unitVars, tickObs, Service_Fans, fansFreed, persisted,
                  Service_Lock, failures, quit, re_init_required, filt,
                  serverVars, w, ecVars, unlockedMutation, ub >>

Service_Init_ModelConfig ==
  /\ mainPc = "init_model_config"
  /\ \/ /\ res' = [res EXCEPT !["model_config"] = "held"]
        /\ Service_State' = 2
        /\ NoError("init_validate")
     \/ /\ UNCHANGED << res, Service_State >>
        /\ GotoError(Service_State)
  /\ UNCHANGED << envVars, unitVars, tickObs, Service_Fans, fansFreed, TargetFanSpeeds,
                  persisted, Service_Lock, failures, quit, re_init_required, filt, serverVars, w, ecVars, unlockedMutation, ub >>

Service_Init_Validate ==
  /\ mainPc = "init_validate"
  /\ \/ NoError("init_fans")
     \/ GotoError(Service_State)
  /\ UNCHANGED << envVars, unitVars, tickObs, Service_State, Service_Fans, fansFreed,
                  TargetFanSpeeds, persisted, Service_Lock, failures, quit,
                  re_init_required, res, filt, serverVars, w, ecVars,
                  unlockedMutation, ub >>

\* the loop over service_config.TargetFanSpeeds of Service_Init
ApplyTargetFanSpeeds(fans, tfs) ==
  [i \in DOMAIN fans |->
     IF i \in DOMAIN tfs
     THEN (IF tfs[i] >= 0 THEN Fan_SetFixedSpeed(fans[i], tfs[i])
                          ELSE Fan_SetAutoSpeed(fans[i]))
     ELSE fans[i]]

\* that loop indexes Service_Fans.data beyond its size
TargetFanSpeedsOverrun(fans, tfs) == \E i \in DOMAIN tfs : i \notin DOMAIN fans

Service_Init_Fans ==
  /\ mainPc = "init_fans"
  /\ Service_State' = 3
  /\ res' = [res EXCEPT !["fans"] = "held"]
  /\ LET fans == [i \in 0..(modelFanCount - 1) |-> Fan_Init]
     IN  \/ \* a Fan_Init fails
            /\ modelFanCount > 0
            /\ Service_Fans' = fans
            /\ GotoError(3)
            /\ UNCHANGED ub
         \/ /\ Service_Fans' = ApplyTargetFanSpeeds(fans, TargetFanSpeeds)
            /\ IF TargetFanSpeedsOverrun(fans, TargetFanSpeeds)
               THEN /\ ub' = ub \cup {"fan_index_out_of_bounds"}
                    /\ \/ NoError("init_ec")
                       \/ /\ mainPc' = "crashed"
                          /\ UNCHANGED << e, cleanupRet, failStage,
                                          teardownLog >>
               ELSE /\ NoError("init_ec")
                    /\ UNCHANGED ub
  /\ UNCHANGED << envVars, unitVars, tickObs, fansFreed, TargetFanSpeeds, persisted,
                  Service_Lock, failures, quit, re_init_required, filt,
                  serverVars, w, ecVars, unlockedMutation >>

Service_Init_EC ==
  /\ mainPc = "init_ec"
  /\ \/ \* EC_FindWorking or ec->Open fails
        /\ UNCHANGED << res, Service_State >>
        /\ GotoError(Service_State)
     \/ /\ res' = [res EXCEPT !["ec"] = "held"]
        /\ Service_State' = 4
        /\ NoError("init_rwc")
  /\ UNCHANGED << envVars, unitVars, tickObs, Service_Fans, fansFreed, TargetFanSpeeds,
                  persisted, Service_Lock, failures, quit, re_init_required, filt, serverVars, w, ecVars, unlockedMutation, ub >>

(***************************************************************************)
(* Register write configurations                                           *)
(***************************************************************************)
\* Service_Model_Config.RegisterWriteConfigurations of the loaded model
RegisterWriteConfigurations ==
  << [Register |-> 1, Value |-> 3, WriteMode |-> "Set",
      WriteOccasion |-> "OnWriteFanSpeed",
      ResetRequired |-> TRUE, ResetValue |-> 0, ResetWriteMode |-> "Set"],
     [Register |-> 2, Value |-> 5, WriteMode |-> "And",
      WriteOccasion |-> "OnInitialization",
      ResetRequired |-> FALSE, ResetValue |-> 0, ResetWriteMode |-> "Set"],
     [Register |-> 3, Value |-> 6, WriteMode |-> "Or",
      WriteOccasion |-> "OnWriteFanSpeed",
      ResetRequired |-> TRUE, ResetValue |-> 1, ResetWriteMode |-> "And"] >>

\* the configurations ApplyRegisterWriteConfgurations(initializing) applies
ApplyRegisterWriteConfgurations(initializing) ==
  SelectSeq(RegisterWriteConfigurations,
            LAMBDA c : initializing \/ c.WriteOccasion = "OnWriteFanSpeed")

\* the registers of the first n of the configurations cfgs
Registers(cfgs, n) == [j \in 1..n |-> cfgs[j].Register]

\* the configurations ResetRegisterWriteConfigs writes
ResetRegisterWriteConfigs ==
  SelectSeq(RegisterWriteConfigurations, LAMBDA c : c.ResetRequired)

\* EC writes issued by ApplyRegisterWriteConfgurations, as log entries
RegisterWrites(issuer, initializing) ==
  IF Len(ApplyRegisterWriteConfgurations(initializing)) > 0
  THEN {<< issuer, "register_write" >>} ELSE {}

\* EC writes issued by ResetEC: register resets and fan resets
ResetEC(issuer, fans) ==
  (IF Len(ResetRegisterWriteConfigs) > 0
   THEN {<< issuer, "register_reset" >>} ELSE {})
  \cup (IF DOMAIN fans # {} THEN {<< issuer, "fan_reset" >>} ELSE {})

\* the record of EC writes
Log(writes) == IF read_only THEN ecLog \cup writes ELSE ecLog

\* if (! options.read_only)  before each EC write
Service_Init_WritesEC == ~read_only
Service_Loop_WritesRegisters == ~read_only
Service_Loop_Flushes == ~read_only
Service_Cleanup_ResetsEC == ~read_only
Server_Command_Set_Fan_Flushes == ~read_only

Service_Init_RegisterWrites ==
  /\ mainPc = "init_rwc"
  /\ IF Service_Init_WritesEC
     THEN /\ ecLog' = Log(RegisterWrites("Service_Init", TRUE))
          /\ UNCHANGED tickSteps
          /\ LET cfgs == ApplyRegisterWriteConfgurations(TRUE)
             IN  \/ /\ registersWritten' = Registers(cfgs, Len(cfgs))
                    /\ NoError("init_sensors")
                 \/ \* ApplyRegisterWriteConfig fails at configuration n + 1
                    \E n \in 0..(Len(cfgs) - 1) :
                      /\ registersWritten' = Registers(cfgs, n)
                      /\ GotoError(Service_State)
     ELSE /\ UNCHANGED ecVars
          /\ NoError("init_sensors")
  /\ UNCHANGED << envVars, unitVars, tickObs, Service_State, Service_Fans, fansFreed,
                  TargetFanSpeeds, persisted, Service_Lock, failures, quit,
                  re_init_required, res, filt, serverVars, w, unlockedMutation, ub >>

Service_Init_Sensors ==
  /\ mainPc = "init_sensors"
  /\ \/ /\ UNCHANGED << res, Service_State >>
        /\ GotoError(Service_State)
     \/ /\ res' = [res EXCEPT !["sensors"] = "held"]
        /\ Service_State' = 5
        /\ NoError("init_filters")
  /\ UNCHANGED << envVars, unitVars, tickObs, Service_Fans, fansFreed, TargetFanSpeeds,
                  persisted, Service_Lock, failures, quit, re_init_required, filt, serverVars, w, ecVars, unlockedMutation, ub >>

\* FanTemperatureControl_SetDefaults for every fan; it initializes the
\* temperature filter of the fan.  Fails at fan k, or succeeds for all.
Service_Init_Filters ==
  /\ mainPc = "init_filters"
  /\ \/ \E k \in DOMAIN Service_Fans :
          /\ filt' = [i \in FanIdx |->
                        IF i \in DOMAIN Service_Fans /\ i < k
                        THEN "held" ELSE filt[i]]
          /\ UNCHANGED Service_State
          /\ GotoError(Service_State)
     \/ /\ filt' = [i \in FanIdx |->
                      IF i \in DOMAIN Service_Fans THEN "held" ELSE filt[i]]
        /\ Service_State' = 6
        /\ NoError("init_bind")
  /\ UNCHANGED << envVars, unitVars, tickObs, Service_Fans, fansFreed, TargetFanSpeeds,
                  persisted, Service_Lock, failures, quit, re_init_required, res, serverVars, w, ecVars, unlockedMutation, ub >>

\* FanTemperatureControl_SetByConfig, then return err_success()
Service_Init_Bind ==
  /\ mainPc = "init_bind"
  /\ \/ GotoError(Service_State)
     \/ NoError("start")
  /\ UNCHANGED << envVars, unitVars, tickObs, Service_State, Service_Fans, fansFreed,
                  TargetFanSpeeds, persisted, Service_Lock, failures, quit,
                  re_init_required, res, filt, serverVars, w, ecVars,
                  unlockedMutation, ub >>

(***************************************************************************)
(* Service_Cleanup: the switch on Service_State falls through the cases    *)
(***************************************************************************)
\* a thread other than main exists
OtherThreads == serverPc = "running" \/ \E x \in Workers : w[x].pc # "none"

\* the record of a mutation of Service_Fans, service_config or the EC by
\* function fn running in thread self
Mutates(fn, self) ==
  IF OtherThreads /\ Service_Lock # self
  THEN unlockedMutation \cup {fn} ELSE unlockedMutation

\* the case label executed after case c
Service_Cleanup_Next(c) == c - 1

\* the case labels executed by switch (c), in order
RECURSIVE Service_Cleanup_Cases(_)
Service_Cleanup_Cases(c) ==
  IF c < 1 THEN << >>
  ELSE << c >> \o Service_Cleanup_Cases(Service_Cleanup_Next(c))

\* the case label that releases resource r
ReleasedAt(r) ==
  CASE r = "sensors" -> 5
    [] r = "ec" -> 4
    [] r = "fans" -> 3
    [] r = "model_config" -> 2
    [] OTHER -> 1

Range(s) == { s[j] : j \in DOMAIN s }

\* Service_State after a Service_Cleanup entered with Service_State = c:
\* Initialized_0_None
Service_Cleanup_State(c) == 0

\* Service_Cleanup(): case 6 closes the temperature filter of every fan,
\* case 5 the sensors, case 4 resets (unless read-only) and closes the EC,
\* case 3 frees the fans, case 2 and 1 the configs, which zeroes them;
\* Service_State = 0
Service_Cleanup ==
  /\ LET cases == Service_Cleanup_Cases(Service_State)
         done  == Range(cases)
     IN  /\ teardownLog' = teardownLog \o cases
         /\ filt' = [i \in FanIdx |->
                       IF 6 \in done /\ i \in DOMAIN Service_Fans
                       THEN Release(filt[i]) ELSE filt[i]]
         /\ res' = [r \in ResNames |->
                      IF ReleasedAt(r) \in done THEN Release(res[r])
                      ELSE res[r]]
         /\ ecLog' = IF 4 \in done /\ Service_Cleanup_ResetsEC
                     THEN Log(ResetEC("Service_Cleanup", Service_Fans))
                     ELSE ecLog
         /\ UNCHANGED << registersWritten, tickSteps >>
         /\ fansFreed' = (fansFreed \/ 3 \in done)
         /\ TargetFanSpeeds' = IF 1 \in done THEN EmptyArray
                                ELSE TargetFanSpeeds
         /\ unlockedMutation' =
              IF done \cap {6, 4, 3, 1} # {}
              THEN Mutates("Service_Cleanup", MainThread)
              ELSE unlockedMutation
  /\ Service_State' = Service_Cleanup_State(Service_State)
  /\ UNCHANGED << envVars, unitVars, tickObs, Service_Fans, persisted,
                  Service_Lock, failures, quit, e, re_init_required,
                  serverVars, w, failStage, ub >>

\* error: Service_Cleanup(); return e;  of Service_Init
Service_Init_Error ==
  /\ mainPc = "cleanup"
  /\ Service_Cleanup
  /\ mainPc' = "init_failed"
  /\ UNCHANGED cleanupRet

(***************************************************************************)
(* main(): start of the server, the loop, shutdown                         *)
(***************************************************************************)
ProcessAlive == mainPc \notin {"init_failed", "crashed", "exit_failure", "done"}

\* the threads of the control server run until Service_Cleanup has run; of
\* what they do between that and the end of the process, the use of the
\* freed fan array is modelled
Serving == ProcessAlive /\ mainPc # "cleaned"

Main_StartServer ==
  /\ mainPc = "start"
  /\ mainPc' = "loop"
  /\ serverPc' = "running"
  /\ Server_Run_failures' = 0
  /\ UNCHANGED serverObs
  /\ UNCHANGED << envVars, unitVars, tickObs, Service_State, Service_Fans, fansFreed,
                  TargetFanSpeeds, persisted, Service_Lock, failures, quit, e,
                  re_init_required, cleanupRet, res, filt, w, teardownLog,
                  failStage, ecVars, unlockedMutation, ub >>

\* the signal handler sets quit; the loops test quit between two
\* iterations only, so the signal is delivered there
Signal ==
  /\ mainPc = "loop"
  /\ ~quit
  /\ quit' = TRUE
  /\ UNCHANGED << envVars, unitVars, tickObs, Service_State, Service_Fans, fansFreed,
                  TargetFanSpeeds, persisted, Service_Lock, failures, mainPc,
                  e, re_init_required, cleanupRet, res, filt, serverVars, w,
                  teardownLog, failStage, ecVars, unlockedMutation, ub >>

\* while (!quit) Service_Loop();  is left: Service_Cleanup() is called
Main_Shutdown ==
  /\ mainPc = "loop"
  /\ quit
  /\ Service_Cleanup
  /\ mainPc' = "cleaned"
  /\ cleanupRet' = "exit"

\* the caller of a Service_Init that failed, and ran Service_Cleanup(),
\* calls Service_Cleanup() itself
Main_CleanupAgain ==
  /\ mainPc = "init_failed"
  /\ cleanupRet = "init_failed"
  /\ Service_Cleanup
  /\ cleanupRet' = "caller"
  /\ UNCHANGED mainPc

\* main returns: the process and with it every thread ends
Main_Return ==
  /\ mainPc = "cleaned"
  /\ mainPc' = "done"
  /\ serverPc' = "stopped"
  /\ UNCHANGED << Server_Run_failures, serverObs >>
  /\ w' = [x \in Workers |-> IdleWorker]
  /\ UNCHANGED << envVars, unitVars, tickObs, Service_State, Service_Fans, fansFreed,
                  TargetFanSpeeds, persisted, Service_Lock, failures, quit, e,
                  re_init_required, cleanupRet, res, filt, teardownLog,
                  failStage, ecVars, unlockedMutation, ub >>

(***************************************************************************)
(* Service_Loop: one tick                                                  *)
(***************************************************************************)
\* pthread_mutex_lock(&Service_Lock) returns in the main thread
Service_Loop_LockAcquired == Service_Lock = Unlocked

Service_Loop_Lock ==
  /\ mainPc = "loop"
  /\ ~quit
  /\ Service_Loop_LockAcquired
  /\ Service_Lock' = MainThread
  /\ mainPc' = "tick_read"
  /\ e' = "undef"
  /\ re_init_required' = FALSE
  /\ tickBefore' = Service_Fans
  /\ stepFailed' = FALSE
  /\ registersWritten' = << >>
  /\ tickSteps' = << >>
  /\ UNCHANGED << envVars, unitVars, tickTorn, realFailures, Service_State, Service_Fans,
                  fansFreed, TargetFanSpeeds, persisted, failures, quit,
                  cleanupRet, res, filt, serverVars, w, teardownLog, failStage,
                  ecLog, unlockedMutation, ub >>

\* the environment may make an EC / sensor step of this tick fail
MayFail == failures < faultLimit

\* the re-init test of Service_Loop for one fan
ReInitRequired(f) ==
  Abs(Fan_GetCurrentSpeed(f) - Fan_GetTargetSpeed(f)) > ReInitThreshold

\* what a status reply reports of the fans
Snapshot(fans) == [i \in DOMAIN fans |-> Reported(fans[i])]

\* what the fans  pre  can report after a tick that processed every fan
CompleteTicks(pre) ==
  { [i \in DOMAIN pre |->
       Reported(Fan_SetTemperature(Fan_UpdateCurrentSpeed(pre[i], r[i]), t[i]))] :
      r \in [DOMAIN pre -> SpeedReadings], t \in [DOMAIN pre -> temperatures] }

\* the value of the local  e  after a loop that ran  k  iterations without
\* error: each iteration assigns it
AfterLoop(err, k) == IF k > 0 THEN "ok" ELSE err

\* a call the tick makes: the function and the fan or register it is for
Step(fn, at) == << fn, at >>

\* the calls of the first loop when k fans are read and, if failed, the
\* reading of fan k fails
Service_Loop_Reads(k, failed) ==
  [j \in 1..(IF failed THEN k + 1 ELSE k) |->
     Step("Fan_UpdateCurrentSpeed", j - 1)]

\* the calls of ApplyRegisterWriteConfgurations for the registers regs
Service_Loop_Applies(regs) ==
  [j \in DOMAIN regs |-> Step("ApplyRegisterWriteConfig", regs[j])]

\* the calls of one iteration of the second loop
Service_Loop_FanSteps(i) ==
  << Step("FanTemperatureControl_UpdateFanTemperature", i),
     Step("Fan_SetTemperature", i) >> \o
  (IF Service_Loop_Flushes THEN << Step("Fan_ECFlush", i) >> ELSE << >>)

\* the calls of the iterations i .. k-1 of the second loop
RECURSIVE Service_Loop_Fans(_, _)
Service_Loop_Fans(i, k) ==
  IF i >= k THEN << >>
  ELSE Service_Loop_FanSteps(i) \o Service_Loop_Fans(i + 1, k)

\* where  goto error  of Service_Loop leads: to the unlock
Service_Loop_ErrorLabel == "tick_unlock"

\* first loop: Fan_UpdateCurrentSpeed of every fan, up to the first failure.
\* k fans are read; k < size is a failure at fan k.
Service_Loop_UpdateCurrentSpeed ==
  /\ mainPc = "tick_read"
  /\ \E k \in 0..Size(Service_Fans) :
     \E r \in [0..(k - 1) -> SpeedReadings] :
       LET fans == [i \in DOMAIN Service_Fans |->
                      IF i < k THEN Fan_UpdateCurrentSpeed(Service_Fans[i], r[i])
                      ELSE Service_Fans[i]]
       IN  /\ k < Size(Service_Fans) => MayFail
           /\ Service_Fans' = fans
           /\ tickSteps' = Service_Loop_Reads(k, k < Size(Service_Fans))
           /\ re_init_required' = \E i \in 0..(k - 1) : ReInitRequired(fans[i])
           /\ unlockedMutation' =
                IF k > 0 THEN Mutates("Service_Loop", MainThread)
                ELSE unlockedMutation
           /\ IF k < Size(Service_Fans)
              THEN /\ e' = "err"
                   /\ stepFailed' = TRUE
                   /\ mainPc' = Service_Loop_ErrorLabel
              ELSE /\ e' = AfterLoop(e, k)
                   /\ mainPc' = "tick_rwc"
                   /\ UNCHANGED stepFailed
  /\ UNCHANGED << envVars, unitVars, tickBefore, tickTorn, realFailures, Service_State,
                  fansFreed, TargetFanSpeeds, persisted, Service_Lock, failures,
                  quit, cleanupRet, res, filt, serverVars, w, teardownLog,
                  failStage, ecLog, registersWritten, ub >>

\* if (! options.read_only) ApplyRegisterWriteConfgurations(re_init_required)
Service_Loop_RegisterWrites ==
  /\ mainPc = "tick_rwc"
  /\ IF Service_Loop_WritesRegisters
     THEN /\ ecLog' = Log(RegisterWrites("Service_Loop", re_init_required))
          /\ unlockedMutation' = Mutates("Service_Loop", MainThread)
          /\ LET cfgs == ApplyRegisterWriteConfgurations(re_init_required)
             IN  \/ /\ registersWritten' = Registers(cfgs, Len(cfgs))
                    /\ tickSteps' = tickSteps \o
                         Service_Loop_Applies(Registers(cfgs, Len(cfgs)))
                    /\ e' = "ok"
                    /\ mainPc' = "tick_fan"
                    /\ UNCHANGED stepFailed
                 \/ \* ApplyRegisterWriteConfig fails at configuration n + 1
                    \E n \in 0..(Len(cfgs) - 1) :
                      /\ MayFail
                      /\ registersWritten' = Registers(cfgs, n)
                      /\ tickSteps' = tickSteps \o
                           Service_Loop_Applies(Registers(cfgs, n + 1))
                      /\ e' = "err"
                      /\ stepFailed' = TRUE
                      /\ mainPc' = Service_Loop_ErrorLabel
     ELSE /\ mainPc' = "tick_fan"
          /\ UNCHANGED << ecVars, e, stepFailed, unlockedMutation >>
  /\ UNCHANGED << envVars, unitVars, tickBefore, tickTorn, realFailures,
                  Service_State, Service_Fans, fansFreed, TargetFanSpeeds,
                  persisted, Service_Lock, failures, quit, re_init_required,
                  cleanupRet, res, filt, serverVars, w, teardownLog, failStage,
                  ub >>

\* how the second loop ends: every fan was processed, or the temperature of
\* fan k could not be read, or the flush of fan k failed
LoopEnds == {"complete", "temperature_error", "flush_error"}

\* second loop, for each fan: FanTemperatureControl_UpdateFanTemperature,
\* Fan_SetTemperature and, unless read-only, Fan_ECFlush; up to the first
\* failure.  k fans are processed without error.
Service_Loop_Fan ==
  /\ mainPc = "tick_fan"
  /\ \E k \in 0..Size(Service_Fans), end \in LoopEnds :
     \E t \in [0..(IF end = "flush_error" THEN k ELSE k - 1) -> temperatures] :
       LET fans == [i \in DOMAIN Service_Fans |->
                      IF i < k
                      THEN LET f == Fan_SetTemperature(Service_Fans[i], t[i])
                           IN  IF Service_Loop_Flushes
                               THEN Fan_ECFlush(f) ELSE f
                      ELSE IF i = k /\ end = "flush_error"
                           THEN Fan_SetTemperature(Service_Fans[i], t[i])
                           ELSE Service_Fans[i]]
           flushes == IF end = "flush_error" THEN k + 1 ELSE k
       IN  /\ (end = "complete") = (k = Size(Service_Fans))
           /\ end # "complete" => MayFail
           /\ end = "flush_error" => Service_Loop_Flushes
           /\ Service_Fans' = fans
           /\ ecLog' = IF Service_Loop_Flushes /\ flushes > 0
                       THEN Log({<< "Service_Loop", "flush" >>})
                       ELSE ecLog
           /\ UNCHANGED registersWritten
           /\ tickSteps' = tickSteps \o Service_Loop_Fans(0, k) \o
                (IF end = "temperature_error"
                 THEN << Step("FanTemperatureControl_UpdateFanTemperature", k) >>
                 ELSE IF end = "flush_error" THEN Service_Loop_FanSteps(k)
                 ELSE << >>)
           /\ unlockedMutation' =
                IF fans # Service_Fans \/ (Service_Loop_Flushes /\ flushes > 0)
                THEN Mutates("Service_Loop", MainThread)
                ELSE unlockedMutation
           /\ IF end = "complete"
              THEN /\ e' = AfterLoop(e, k)
                   /\ UNCHANGED stepFailed
              ELSE /\ e' = "err"
                   /\ stepFailed' = TRUE
  /\ mainPc' = "tick_unlock"
  /\ UNCHANGED << envVars, unitVars, tickBefore, tickTorn, realFailures, Service_State, fansFreed,
                  TargetFanSpeeds, persisted, Service_Lock, failures, quit,
                  re_init_required, cleanupRet, res, filt, serverVars, w,
                  teardownLog, failStage, ub >>

\* error: pthread_mutex_unlock(&Service_Lock)
Service_Loop_Unlock ==
  /\ mainPc = "tick_unlock"
  /\ Service_Lock' = Unlocked
  /\ mainPc' = "tick_judge"
  /\ tickTorn' = (Snapshot(Service_Fans) \notin
                    {Snapshot(tickBefore)} \cup CompleteTicks(tickBefore))
  /\ tickBefore' = EmptyArray
  /\ re_init_required' = FALSE
  /\ registersWritten' = << >>
  /\ tickSteps' = << >>
  /\ UNCHANGED << envVars, unitVars, stepFailed, realFailures, Service_State,
                  Service_Fans, fansFreed, TargetFanSpeeds, persisted,
                  failures, quit, e, cleanupRet, res, filt, serverVars, w,
                  teardownLog, failStage, ecLog, unlockedMutation, ub >>

\* the values  e  can have when it is tested: an uninitialized  e  is any
ErrorValues(err) == IF err = "undef" THEN {"ok", "err"} ELSE {err}

\* the process exits when the incremented failure counter is f
Service_Loop_Exits(f) == f >= Service_Max_Failures

\* if (! e) { sleep; failures = 0 } else { if (++failures >= 100) exit; sleep }
\* and the return, which ends the life of the local  e; exit() ends every
\* thread
Service_Loop_Judge ==
  /\ mainPc = "tick_judge"
  /\ e' = "ok"
  /\ stepFailed' = FALSE
  /\ tickTorn' = FALSE
  /\ ub' = IF e = "undef" THEN ub \cup {"uninitialized_e"} ELSE ub
  /\ realFailures' = IF stepFailed THEN realFailures + 1 ELSE 0
  /\ \E v \in ErrorValues(e) :
       IF v = "ok"
       THEN /\ failures' = 0
            /\ mainPc' = "loop"
            /\ UNCHANGED << w, serverVars >>
       ELSE /\ failures' = failures + 1
            /\ IF Service_Loop_Exits(failures + 1)
               THEN /\ mainPc' = "exit_failure"
                    /\ serverPc' = "stopped"
                    /\ UNCHANGED << Server_Run_failures, serverObs >>
                    /\ w' = [x \in Workers |-> IdleWorker]
               ELSE /\ mainPc' = "loop"
                    /\ UNCHANGED << w, serverVars >>
  /\ UNCHANGED << envVars, unitVars, tickBefore, Service_State,
                  Service_Fans, fansFreed, TargetFanSpeeds, persisted,
                  Service_Lock, quit, re_init_required, cleanupRet, res, filt,
                  teardownLog, failStage, ecVars, unlockedMutation >>

(***************************************************************************)
(* The control server: requests and their parsing                          *)
(***************************************************************************)

\* the members of a set-fan-speed message besides "Command", as nxjson
\* nodes: key, type and the value of that type
Node(k, t, n, s) == [key |-> k, type |-> t, i |-> n, text |-> s]

FanNodes ==
  { Node("Fan", "integer", n, "") : n \in -1..MaxFans } \cup
  { Node("Fan", "string", 0, "0") }

\* the value of a "double" node is given in steps of 1/DoubleSteps
SpeedNodes ==
  { Node("Speed", "integer", n, "") : n \in {-1, 100, 101, 150} } \cup
  { Node("Speed", "double", n, "") :
      n \in {-2 * DoubleSteps, 100 * DoubleSteps - 1, 100 * DoubleSteps + 1} } \cup
  { Node("Speed", "string", 0, t) : t \in {"auto", "fast"} } \cup
  { Node("Speed", "bool", 1, "") }

OtherNodes == { Node("Verbose", "bool", 1, "") }

\* messages: the members in any order, each key at most once
SetFanMessages ==
  { m \in UNION { [1..n -> FanNodes \cup SpeedNodes \cup OtherNodes] :
                    n \in 0..MaxKeys } :
      \A a, b \in DOMAIN m : a # b => m[a].key # m[b].key }

\* (float) of the double d/DoubleSteps: the nearest float, ties to even
CastFloat(d) ==
  LET q == d \div DoubleSteps
      r == d % DoubleSteps
  IN  IF 2 * r < DoubleSteps THEN q
      ELSE IF 2 * r > DoubleSteps THEN q + 1
      ELSE IF q % 2 = 0 THEN q ELSE q + 1

\* the locals of Server_Command_Set_Fan and the error it returns
ParseStart == [fan |-> -1, speed |-> -2, err |-> ""]

\* one iteration of nx_json_for_each in Server_Command_Set_Fan
Server_Command_Set_Fan_Key(p, c, fancount) ==
  IF c.key = "Fan"
  THEN IF c.type # "integer"
       THEN [p EXCEPT !.err = "Fan: Not an integer"]
       ELSE IF c.i < 0
            THEN [p EXCEPT !.fan = c.i, !.err = "Fan: Cannot be negative"]
            ELSE IF c.i >= fancount
                 THEN [p EXCEPT !.fan = c.i,
                                !.err = "Fan: No such fan available"]
                 ELSE [p EXCEPT !.fan = c.i]
  ELSE IF c.key = "Speed"
  THEN IF c.type = "string" /\ c.text = "auto"
       THEN [p EXCEPT !.speed = -1]
       ELSE IF c.type \in {"double", "integer"}
            THEN LET speed == IF c.type = "double" THEN CastFloat(c.i) ELSE c.i
                 IN  IF speed < 0 \/ speed > 100
                     THEN [p EXCEPT !.speed = speed,
                                    !.err = "Speed: Invalid value"]
                     ELSE [p EXCEPT !.speed = speed]
            ELSE [p EXCEPT
                    !.err = "Speed: Invalid type. Either float or 'auto'"]
  ELSE [p EXCEPT !.err = "Unknown arguments"]

RECURSIVE Server_Command_Set_Fan_Keys(_, _, _, _)
Server_Command_Set_Fan_Keys(p, m, k, fancount) ==
  IF k > Len(m) \/ p.err # ""
  THEN p
  ELSE Server_Command_Set_Fan_Keys(
         Server_Command_Set_Fan_Key(p, m[k], fancount), m, k + 1, fancount)

\* the argument checks of Server_Command_Set_Fan: the error returned, or
\* the locals  fan  and  speed  the loop over Service_Fans starts with
Server_Command_Set_Fan_Parse(m, fancount) ==
  LET p == Server_Command_Set_Fan_Keys(ParseStart, m, 1, fancount)
  IN  IF p.err # "" THEN [ParseStart EXCEPT !.err = p.err]
      ELSE IF p.speed = -2
           THEN [ParseStart EXCEPT !.err = "Missing argument: Speed"]
           ELSE p

\* what a request asks for, read off the message itself
HasKey(m, k) == \E j \in DOMAIN m : m[j].key = k
NodeOf(m, k) == m[CHOOSE j \in DOMAIN m : m[j].key = k]
IsNumber(c) == c.type \in {"integer", "double"}
\* the number a node holds, in steps of 1/DoubleSteps
ExactSteps(c) == IF c.type = "double" THEN c.i ELSE c.i * DoubleSteps

FanInvalid(m, fancount) ==
  HasKey(m, "Fan") /\
    ~(NodeOf(m, "Fan").type = "integer" /\
      NodeOf(m, "Fan").i \in 0..(fancount - 1))
SpeedMissing(m) == ~HasKey(m, "Speed")
SpeedWrongType(m) ==
  HasKey(m, "Speed") /\ ~IsNumber(NodeOf(m, "Speed")) /\
    ~(NodeOf(m, "Speed").type = "string" /\ NodeOf(m, "Speed").text = "auto")
SpeedOutOfRange(m) ==
  HasKey(m, "Speed") /\ IsNumber(NodeOf(m, "Speed")) /\
    ExactSteps(NodeOf(m, "Speed")) \notin 0..(100 * DoubleSteps)
ForeignKey(m) == \E j \in DOMAIN m : m[j].key \notin {"Fan", "Speed"}

RequestInvalid(m, fancount) ==
  FanInvalid(m, fancount) \/ SpeedMissing(m) \/ SpeedWrongType(m) \/
  SpeedOutOfRange(m) \/ ForeignKey(m)

\* the reply the request is to get, where the interface names one
RequestReply(m, fancount) ==
  IF SpeedOutOfRange(m) /\ ~FanInvalid(m, fancount) /\ ~ForeignKey(m)
  THEN "Speed: Invalid value" ELSE ""

RequestOf(m, fancount) ==
  IF RequestInvalid(m, fancount)
  THEN NoRequest
  ELSE [fanGiven |-> HasKey(m, "Fan"),
        fan |-> IF HasKey(m, "Fan") THEN NodeOf(m, "Fan").i ELSE 0,
        auto |-> ~IsNumber(NodeOf(m, "Speed")),
        speed |-> IF IsNumber(NodeOf(m, "Speed"))
                  THEN ExactSteps(NodeOf(m, "Speed")) ELSE 0]

\* for each fan count: the messages as the handler parses them, paired with
\* what they ask for
SetFanRequests ==
  [n \in 0..MaxFans |->
     { [parsed |-> Server_Command_Set_Fan_Parse(m, n),
        claimReject |-> RequestInvalid(m, n),
        claimReply |-> RequestReply(m, n),
        req |-> RequestOf(m, n)] : m \in SetFanMessages }]

\* Service_Model_Config.FanConfigurations.size; ModelConfig_Free zeroes it
FanCount == IF res["model_config"] = "held" THEN modelFanCount ELSE 0

\* what the worker actions leave alone
mainVars == << envVars, unitVars, tickObs, Service_State, fansFreed, failures, quit,
               mainPc, e, re_init_required, cleanupRet, res, filt,
               teardownLog, failStage >>

\* mode and requested speed of every fan
ModeRequested(fans) ==
  [i \in DOMAIN fans |->
     [mode |-> fans[i].mode, requestedSpeed |-> fans[i].requestedSpeed]]

(***************************************************************************)
(* The control server: the accepting thread and the connection workers     *)
(***************************************************************************)

\* replies, by the member that tells them apart
ErrorReply == "Error"
OkReply == "Status"
StatusReply == "Fans"

\* the connection slot a new worker runs in
FreeSlot(x) ==
  /\ x <= workerLimit
  /\ w[x].pc = "none"
  /\ \A y \in Workers : y < x => w[y].pc # "none"

\* Server_Run: failures after a Server_Loop that failed (++failures) or
\* succeeded (failures = 0)
Server_Run_Counts(n, failed) == IF failed THEN n + 1 ELSE 0

\* Server_Loop: accept() and pthread_create(Server_Handle_Client)
Server_Loop(x) ==
  /\ Serving
  /\ serverPc = "running"
  /\ ~quit
  /\ FreeSlot(x)
  /\ w' = [w EXCEPT ![x] = [IdleWorker EXCEPT !.pc = "recv"]]
  /\ Server_Run_failures' = Server_Run_Counts(Server_Run_failures, FALSE)
  /\ serverObs' = [serverObs EXCEPT !.consecutive = 0]
  /\ UNCHANGED << mainVars, serverPc, Service_Fans, TargetFanSpeeds,
                  persisted, Service_Lock, ecVars, unlockedMutation,
                  ub >>

\* Server_Run after a Server_Loop that failed: if (++failures >
\* Server_Max_Failures)
Server_Run_GivesUp(n) == n > Server_Max_Failures

\* Server_Loop fails in accept() or in pthread_create(), where the new socket
\* is closed; Server_Run counts the failure and sets quit and returns when
\* there were too many
Server_Loop_Fails ==
  /\ Serving
  /\ serverPc = "running"
  /\ ~quit
  /\ serverFaults
  /\ Server_Run_failures' = Server_Run_Counts(Server_Run_failures, TRUE)
  /\ IF Server_Run_GivesUp(Server_Run_failures')
     THEN /\ quit' = TRUE
          /\ serverPc' = "stopped"
          /\ serverObs' = [serverObs EXCEPT !.consecutive = @ + 1,
                                            !.shutdown = TRUE]
     ELSE /\ serverObs' = [serverObs EXCEPT !.consecutive = @ + 1]
          /\ UNCHANGED << quit, serverPc >>
  /\ UNCHANGED << envVars, unitVars, tickObs, Service_State, fansFreed, failures,
                  mainPc, e, re_init_required, cleanupRet, res, filt,
                  teardownLog, failStage, w, Service_Fans, TargetFanSpeeds,
                  persisted, Service_Lock, ecVars, unlockedMutation, ub >>

\* Server_Run: while (! quit) is left
Server_Run_Return ==
  /\ Serving
  /\ serverPc = "running"
  /\ quit
  /\ serverPc' = "stopped"
  /\ UNCHANGED << Server_Run_failures, serverObs >>
  /\ UNCHANGED << mainVars, w, Service_Fans, TargetFanSpeeds, persisted,
                  Service_Lock, ecVars, unlockedMutation, ub >>

\* what Protocol_Receive_Json and the checks before the lock make of a message
Received ==
  { [cmd |-> "none", err |-> "Protocol_Receive_Json"],
    [cmd |-> "none", err |-> "Not a JSON object"],
    [cmd |-> "none", err |-> "Missing 'Command' field"],
    [cmd |-> "none", err |-> "Command: not a string"],
    [cmd |-> "set-fan-speed", err |-> ""],
    [cmd |-> "status", err |-> ""],
    [cmd |-> "restart", err |-> ""] }

\* Server_Handle_Client from the label error: on: what is done with the
\* socket when the handler ends with the error err
Server_Handle_Client_Error(err) ==
  IF err # "" THEN << ErrorReply, "close" >> ELSE << "close" >>

\* e after err_print_all(e): of the message only whether there was one is kept
Printed(err) == IF err # "" THEN "printed" ELSE ""

\* the replies among the operations on a socket
Replies(ops) == SelectSeq(ops, LAMBDA o : o # "close")

\* Server_Handle_Client up to pthread_mutex_lock; on an error it jumps to
\* error:  where the Error reply is sent and the socket is closed
Server_Handle_Client_Receive(x) ==
  /\ Serving
  /\ w[x].pc = "recv"
  /\ \E r \in Received :
       w' = IF r.err = ""
            THEN [w EXCEPT ![x].cmd = r.cmd, ![x].pc = "lock"]
            ELSE [w EXCEPT ![x].cmd = r.cmd, ![x].err = Printed(r.err),
                           ![x].socket = Server_Handle_Client_Error(r.err),
                           ![x].sent = Replies(Server_Handle_Client_Error(r.err)),
                           ![x].pc = "closed"]
  /\ UNCHANGED << mainVars, serverVars, Service_Fans, TargetFanSpeeds,
                  persisted, Service_Lock, ecVars, unlockedMutation,
                  ub >>

\* pthread_mutex_lock(&Service_Lock) returns in a worker
Server_Handle_Client_LockAcquired == Service_Lock = Unlocked

\* the lock is taken and the command is dispatched; the argument checks of
\* the command run
Server_Handle_Client_Lock(x) ==
  /\ Serving
  /\ w[x].pc = "lock"
  /\ Server_Handle_Client_LockAcquired
  /\ Service_Lock' = WorkerThread(x)
  /\ CASE w[x].cmd = "set-fan-speed" ->
            \E r \in SetFanRequests[FanCount] :
              w' = [w EXCEPT
                      ![x].fan = r.parsed.fan, ![x].speed = r.parsed.speed,
                      ![x].err = r.parsed.err, ![x].i = 0,
                      ![x].claimReject = r.claimReject,
                      ![x].claimReply = r.claimReply, ![x].req = r.req,
                      ![x].before = << ModeRequested(Service_Fans), persisted >>,
                      ![x].pc = IF r.parsed.err = ""
                                THEN "set_apply" ELSE "unlock"]
       [] w[x].cmd = "status" ->
            \E more \in BOOLEAN :
              w' = [w EXCEPT
                      ![x].err = IF more THEN "Unknown arguments" ELSE "",
                      ![x].i = 0,
                      ![x].pc = IF more THEN "unlock" ELSE "status_read"]
       [] OTHER ->
            w' = [w EXCEPT ![x].err = "Invalid command", ![x].pc = "unlock"]
  /\ UNCHANGED << mainVars, serverVars, Service_Fans, TargetFanSpeeds,
                  persisted, ecVars, unlockedMutation, ub >>

\* the fans a set-fan-speed with local  fan  applies to
Selected(fan, i) == fan = -1 \/ fan = i

\* Server_Command_Set_Fan, one iteration of the loop over Service_Fans
Server_Command_Set_Fan_Apply(x) ==
  /\ Serving
  /\ w[x].pc = "set_apply"
  /\ w[x].i < Size(Service_Fans)
  /\ ~fansFreed
  /\ w' = [w EXCEPT ![x].i = @ + 1]
  /\ IF Selected(w[x].fan, w[x].i)
     THEN LET f == IF w[x].speed = -1
                   THEN Fan_SetAutoSpeed(Service_Fans[w[x].i])
                   ELSE Fan_SetFixedSpeed(Service_Fans[w[x].i], w[x].speed)
          IN  /\ unlockedMutation' = Mutates("Server_Command_Set_Fan", WorkerThread(x))
              /\ IF Server_Command_Set_Fan_Flushes
                 THEN /\ Service_Fans' =
                           [Service_Fans EXCEPT ![w[x].i] = Fan_ECFlush(f)]
                      /\ ecLog' = Log({<< "Server_Command_Set_Fan", "flush" >>})
                      /\ UNCHANGED << registersWritten, tickSteps >>
                 ELSE /\ Service_Fans' = [Service_Fans EXCEPT ![w[x].i] = f]
                      /\ UNCHANGED ecVars
     ELSE UNCHANGED << Service_Fans, ecVars, unlockedMutation >>
  /\ UNCHANGED << mainVars, serverVars, TargetFanSpeeds, persisted,
                  Service_Lock, ub >>

\* a worker inside the critical section uses Service_Fans.data after
\* Service_Cleanup freed it
Server_Handle_Client_Dangling(x) ==
  /\ ProcessAlive
  /\ w[x].pc \in {"set_apply", "status_read"}
  /\ w[x].i < Size(Service_Fans) \/ w[x].pc = "set_apply"
  /\ Size(Service_Fans) > 0
  /\ fansFreed
  /\ ub' = ub \cup {"use_after_free"}
  /\ w' = [w EXCEPT ![x].pc = "undefined"]
  /\ UNCHANGED << mainVars, serverVars, Service_Fans, TargetFanSpeeds,
                  persisted, Service_Lock, ecVars, unlockedMutation >>

\* Service_WriteTargetFanSpeedsToConfig: the array written to the file
WrittenTargetFanSpeeds(fans, fancount) ==
  [i \in 0..(fancount - 1) |->
     IF i \in DOMAIN fans
     THEN IF fans[i].mode = "Auto" THEN -1 ELSE Fan_GetRequestedSpeed(fans[i])
     ELSE 0]

\* whether Service_WriteTargetFanSpeedsToConfig calls pthread_mutex_lock on
\* Service_Lock: it does not
Service_WriteTargetFanSpeedsToConfig_Locks == FALSE

\* Server_Command_Set_Fan after the loop: Service_WriteTargetFanSpeedsToConfig,
\* then the OK reply
Server_Command_Set_Fan_Write(x) ==
  /\ Serving
  /\ w[x].pc = "set_apply"
  /\ w[x].i = Size(Service_Fans)
  /\ Service_WriteTargetFanSpeedsToConfig_Locks => Service_Lock = Unlocked
  /\ ~(fansFreed /\ Size(Service_Fans) > 0)
  /\ TargetFanSpeeds' = WrittenTargetFanSpeeds(Service_Fans, FanCount)
  /\ unlockedMutation' =
       Mutates("Service_WriteTargetFanSpeedsToConfig", WorkerThread(x))
  /\ \/ \* ServiceConfig_Write fails
        /\ ~configWritable
        /\ w' = [w EXCEPT ![x].err = "ServiceConfig_Write",
                          ![x].pc = "unlock"]
        /\ UNCHANGED persisted
     \/ /\ configWritable
        /\ persisted' = TargetFanSpeeds'
        /\ \/ /\ w' = [w EXCEPT ![x].sent = Append(@, OkReply),
                                ![x].pc = "unlock"]
           \/ \* Protocol_Send_Json fails
              /\ w' = [w EXCEPT ![x].err = "Protocol_Send_Json",
                                ![x].pc = "unlock"]
  /\ UNCHANGED << mainVars, serverVars, Service_Fans, Service_Lock, ecVars, ub >>

\* Server_Command_Status, one iteration of the loop over Service_Fans
Server_Command_Status_Fan(x) ==
  /\ Serving
  /\ w[x].pc = "status_read"
  /\ w[x].i < Size(Service_Fans)
  /\ ~fansFreed
  /\ w' = [w EXCEPT ![x].reply = Append(@, Reported(Service_Fans[w[x].i])),
                    ![x].i = @ + 1]
  /\ UNCHANGED << mainVars, serverVars, Service_Fans, TargetFanSpeeds,
                  persisted, Service_Lock, ecVars, unlockedMutation,
                  ub >>

\* Server_Command_Status after the loop: Protocol_Send_Json
Server_Command_Status_Send(x) ==
  /\ Serving
  /\ w[x].pc = "status_read"
  /\ w[x].i = Size(Service_Fans)
  /\ \/ /\ w' = [w EXCEPT ![x].sent = Append(@, StatusReply),
                          ![x].pc = "unlock"]
     \/ /\ w' = [w EXCEPT ![x].err = "Protocol_Send_Json", ![x].pc = "unlock"]
  /\ UNCHANGED << mainVars, serverVars, Service_Fans, TargetFanSpeeds,
                  persisted, Service_Lock, ecVars, unlockedMutation, ub >>

\* pthread_mutex_unlock(&Service_Lock) and the rest of Server_Handle_Client:
\* error: if (e) Protocol_Send_Error(...); the buffers are freed and the
\* socket is closed
Server_Handle_Client_Unlock(x) ==
  /\ Serving
  /\ w[x].pc = "unlock"
  /\ Service_Lock' = Unlocked
  /\ w' = [w EXCEPT ![x] = [IdleWorker EXCEPT
                              !.pc = "closed",
                              !.err = Printed(w[x].err),
                              !.socket =
                                 w[x].sent \o Server_Handle_Client_Error(w[x].err),
                              !.sent =
                                 w[x].sent \o
                                 Replies(Server_Handle_Client_Error(w[x].err)),
                              !.claimReject = w[x].claimReject,
                              !.claimReply = w[x].claimReply]]
  /\ UNCHANGED << mainVars, serverVars, Service_Fans, TargetFanSpeeds,
                  persisted, ecVars, unlockedMutation, ub >>

\* return NULL: the detached thread ends
Server_Handle_Client_Return(x) ==
  /\ Serving
  /\ w[x].pc = "closed"
  /\ w' = [w EXCEPT ![x] = IdleWorker]
  /\ UNCHANGED << mainVars, serverVars, Service_Fans, TargetFanSpeeds,
                  persisted, Service_Lock, ecVars, unlockedMutation,
                  ub >>

\* the steps of the connection worker x
Server_Handle_Client(x) ==
  \/ Server_Handle_Client_Receive(x)
  \/ Server_Handle_Client_Lock(x)
  \/ Server_Command_Set_Fan_Apply(x)
  \/ Server_Command_Set_Fan_Write(x)
  \/ Server_Command_Status_Fan(x)
  \/ Server_Command_Status_Send(x)
  \/ Server_Handle_Client_Dangling(x)
  \/ Server_Handle_Client_Unlock(x)
  \/ Server_Handle_Client_Return(x)

WorkerNext(x) == Server_Loop(x) \/ Server_Handle_Client(x)

MainNext ==
  \/ Service_Init_ServiceConfig
  \/ Service_Init_ModelConfig
  \/ Service_Init_Validate
  \/ Service_Init_Fans
  \/ Service_Init_EC
  \/ Service_Init_RegisterWrites
  \/ Service_Init_Sensors
  \/ Service_Init_Filters
  \/ Service_Init_Bind
  \/ Service_Init_Error
  \/ Main_StartServer
  \/ Main_Shutdown
  \/ Main_CleanupAgain
  \/ Main_Return
  \/ Service_Loop_Lock
  \/ Service_Loop_UpdateCurrentSpeed
  \/ Service_Loop_RegisterWrites
  \/ Service_Loop_Fan
  \/ Service_Loop_Unlock
  \/ Service_Loop_Judge

Next ==
  \/ MainNext
  \/ Signal
  \/ Server_Run_Return
  \/ Server_Loop_Fails
  \/ \E x \in Workers : WorkerNext(x)

Spec == Init /\ [][Next]_vars

(***************************************************************************)
(* The service under fair scheduling: every thread that can take a step    *)
(* takes one, and a thread waiting in pthread_mutex_lock gets the mutex if *)
(* it is released again and again (the holder sleeps or ends after the     *)
(* release).  One client at a time, one fan, an accept() that succeeds.    *)
(***************************************************************************)
LockInit ==
  /\ InitCommon
  /\ workerLimit = 1
  /\ serverFaults = FALSE
  /\ read_only = FALSE
  /\ modelFanCount = 1
  /\ temperatures = {SetMin(Temperatures)}
  /\ faultLimit = MaxFaults
  /\ configWritable \in BOOLEAN
  /\ persisted = Arr(<<50, -1>>)
  /\ NoCalls

LockNext ==
  \/ MainNext
  \/ Signal
  \/ Server_Run_Return
  \/ \E x \in Workers : WorkerNext(x)

Fairness ==
  /\ WF_vars(MainNext)
  /\ SF_vars(Service_Loop_Lock)
  /\ \A x \in Workers :
       /\ WF_vars(Server_Handle_Client(x))
       /\ SF_vars(Server_Handle_Client_Lock(x))

LockSpec == LockInit /\ [][LockNext]_vars /\ Fairness

(***************************************************************************)
(* Functions applied on their own: the service has not been started, the   *)
(* variable env holds what the functions read and write                    *)
(***************************************************************************)
\* the service is not started
Standby ==
  /\ InitCommon
  /\ workerLimit = 0
  /\ serverFaults = FALSE
  /\ read_only = FALSE
  /\ modelFanCount = 0
  /\ temperatures = {}
  /\ faultLimit = 0
  /\ configWritable = TRUE
  /\ persisted = EmptyArray

\* the sequences over S of length 0..n
SeqsUpTo(S, n) == UNION { [1..k -> S] : k \in 0..n }

\* a string member a JSON object does not have; a string that is NULL
Absent == "absent"
\* a member of another type that a JSON object does not have (a field that
\* is unset), and one that it has
None == << >>
Some(v) == << v >>

(***************************************************************************)
(* service_config.c and the conversions of model_config.c it uses          *)
(***************************************************************************)
\* largest number of TargetFanSpeeds entries of a service config file
MaxEntries == 2
\* largest number of FanTemperatureSources entries of a service config file
MaxSources == 1

\* a JSON number: an integer, or a double given in steps of 1/DoubleSteps
Number(t, n) == [type |-> t, i |-> n]

\* entries of "TargetFanSpeeds" in a file: 50, -1, 150, -5, -0.25, 100.25
\* and a string
TargetFanSpeedTokens ==
  { Number("integer", n) : n \in {50, -1, 150, -5} } \cup
  { Number("double", n) : n \in {-1, 100 * DoubleSteps + 1} } \cup
  { Number("string", 0) }

\* entries of "FanTemperatureSources" in a file
FanTemperatureSourceTokens ==
  [FanIndex : {None, Some(0), Some(-1)},
   TemperatureAlgorithmType : {Absent, "Max", "Median"},
   Sensors : {None, Some(<< >>), Some(<< "coretemp" >>)}]

\* a file that is not JSON
NotJson ==
  [parses |-> FALSE, SelectedConfigId |-> Absent,
   EmbeddedControllerType |-> Absent, TargetFanSpeeds |-> None,
   FanTemperatureSources |-> None]

\* values of "EmbeddedControllerType" in a file: the names of the four
\* backends, the names older versions wrote, and strings that are neither
ControllerNames ==
  {"ec_sys", "acpi_ec", "dev_port", "dummy", "ec_sys_linux", "ec_acpi",
   "ec_linux", "ec_usb", "EC_SYS", ""}

\* the service config files: files with every kind of TargetFanSpeeds and
\* FanTemperatureSources, and files with every EmbeddedControllerType
ConfigFiles ==
  {NotJson} \cup
  [parses : {TRUE}, SelectedConfigId : {"Acme Book 1"},
   EmbeddedControllerType : ControllerNames,
   TargetFanSpeeds : {None}, FanTemperatureSources : {None}] \cup
  [parses : {TRUE},
   SelectedConfigId : {Absent, "Acme Book 1"},
   EmbeddedControllerType : {Absent, "ec_sys", "ec_linux", "ec_usb"},
   TargetFanSpeeds :
     {None} \cup { Some(a) : a \in SeqsUpTo(TargetFanSpeedTokens, MaxEntries) },
   FanTemperatureSources :
     {None} \cup
     { Some(a) : a \in SeqsUpTo(FanTemperatureSourceTokens, MaxSources) }]

\* float_FromJson on double_FromJson: the float and the error
float_FromJson(node) ==
  IF node.type = "integer" THEN [e |-> "", v |-> node.i]
  ELSE IF node.type = "double" THEN [e |-> "", v |-> CastFloat(node.i)]
  ELSE [e |-> "Not a double", v |-> 0]

EmbeddedControllerType_FromString(str) ==
  CASE str = "ec_sys" -> "EmbeddedControllerType_ECSysLinux"
    [] str = "acpi_ec" -> "EmbeddedControllerType_ECSysLinuxACPI"
    [] str = "dev_port" -> "EmbeddedControllerType_ECLinux"
    [] str = "dummy" -> "EmbeddedControllerType_ECDummy"
    [] str = "ec_sys_linux" -> "EmbeddedControllerType_ECSysLinux"
    [] str = "ec_acpi" -> "EmbeddedControllerType_ECSysLinuxACPI"
    [] str = "ec_linux" -> "EmbeddedControllerType_ECLinux"
    [] OTHER -> "EmbeddedControllerType_Unset"

\* the default case is an assert
EmbeddedControllerType_ToString(t) ==
  CASE t = "EmbeddedControllerType_ECSysLinux" -> "ec_sys"
    [] t = "EmbeddedControllerType_ECSysLinuxACPI" -> "acpi_ec"
    [] t = "EmbeddedControllerType_ECLinux" -> "dev_port"
    [] t = "EmbeddedControllerType_ECDummy" -> "dummy"
    [] OTHER -> "assert"

\* the value TemperatureAlgorithmType_FromJson stores; Unset: it returns the
\* error "Invalid value for TemperatureAlgorithmType"
TemperatureAlgorithmType_FromJson(str) ==
  CASE str = "Average" -> "TemperatureAlgorithmType_Average"
    [] str = "Min" -> "TemperatureAlgorithmType_Min"
    [] str = "Max" -> "TemperatureAlgorithmType_Max"
    [] OTHER -> "TemperatureAlgorithmType_Unset"

\* the default case is an assert
TemperatureAlgorithmType_ToString(t) ==
  CASE t = "TemperatureAlgorithmType_Average" -> "Average"
    [] t = "TemperatureAlgorithmType_Min" -> "Min"
    [] t = "TemperatureAlgorithmType_Max" -> "Max"
    [] OTHER -> "assert"

\* ServiceConfig service_config = {0}
ZeroServiceConfig ==
  [SelectedConfigId |-> Absent,
   EmbeddedControllerType |-> "EmbeddedControllerType_Unset",
   TargetFanSpeeds |-> EmptyArray, FanTemperatureSources |-> << >>]

\* the members of a file as sequences: a member that is absent gives none
MemberSeq(m) == IF m = None THEN << >> ELSE m[1]

\* ServiceConfig_FromJson: every member present is converted; a member
\* that is absent leaves its field unset
ServiceConfig_FromJson(file) ==
  LET ect   == IF file.EmbeddedControllerType = Absent
               THEN "EmbeddedControllerType_Unset"
               ELSE EmbeddedControllerType_FromString(file.EmbeddedControllerType)
      tfs   == MemberSeq(file.TargetFanSpeeds)
      srcs  == MemberSeq(file.FanTemperatureSources)
      alg(t) == IF t.TemperatureAlgorithmType = Absent
                THEN "TemperatureAlgorithmType_Unset"
                ELSE TemperatureAlgorithmType_FromJson(t.TemperatureAlgorithmType)
      bad   == \/ file.EmbeddedControllerType # Absent /\
                   ect = "EmbeddedControllerType_Unset"
               \/ \E j \in DOMAIN tfs : float_FromJson(tfs[j]).e # ""
               \/ \E j \in DOMAIN srcs :
                    /\ srcs[j].TemperatureAlgorithmType # Absent
                    /\ alg(srcs[j]) = "TemperatureAlgorithmType_Unset"
  IN  IF bad
      THEN [e |-> "ServiceConfig_FromJson", c |-> ZeroServiceConfig]
      ELSE [e |-> "",
            c |-> [SelectedConfigId |-> file.SelectedConfigId,
                   EmbeddedControllerType |-> ect,
                   TargetFanSpeeds |->
                     [i \in 0..(Len(tfs) - 1) |-> float_FromJson(tfs[i + 1]).v],
                   FanTemperatureSources |->
                     [j \in DOMAIN srcs |->
                        [FanIndex |-> srcs[j].FanIndex,
                         TemperatureAlgorithmType |-> alg(srcs[j]),
                         Sensors |-> MemberSeq(srcs[j].Sensors)]]]]

\* ServiceConfig_ValidateFields: the error
ServiceConfig_ValidateFields(c) ==
  IF c.SelectedConfigId = Absent THEN "SelectedConfigId: Missing option"
  ELSE ""

\* FanTemperatureSourceConfig_ValidateFields: the error, and the entry with
\* its defaults set
FanTemperatureSourceConfig_ValidateFields(ftsc) ==
  IF ftsc.FanIndex = None THEN [e |-> "FanIndex: Missing option", c |-> ftsc]
  ELSE IF ftsc.FanIndex[1] < 0 THEN [e |-> "FanIndex: Invalid value", c |-> ftsc]
  ELSE [e |-> "",
        c |-> IF ftsc.TemperatureAlgorithmType = "TemperatureAlgorithmType_Unset"
              THEN [ftsc EXCEPT !.TemperatureAlgorithmType =
                                   "TemperatureAlgorithmType_Average"]
              ELSE ftsc]

\* the entries of TargetFanSpeeds for which ServiceConfig_Init warns
Warned(tfs) ==
  { i \in DOMAIN tfs : tfs[i] > 100 \/ (tfs[i] < 0 /\ tfs[i] # -1) }

\* ServiceConfig_Init(file) with service_config = old: the error, the number
\* of warnings and the new service_config
ServiceConfig_Init(file, old) ==
  IF ~file.parses
  THEN [e |-> "nx_json_parse_file", warnings |-> 0, service_config |-> old]
  ELSE
    LET r == ServiceConfig_FromJson(file)
    IN  IF r.e # ""
        THEN [e |-> r.e, warnings |-> 0, service_config |-> r.c]
        ELSE IF ServiceConfig_ValidateFields(r.c) # ""
        THEN [e |-> ServiceConfig_ValidateFields(r.c), warnings |-> 0,
              service_config |-> r.c]
        ELSE
          LET tfs  == [i \in DOMAIN r.c.TargetFanSpeeds |->
                         ClampTargetFanSpeed(r.c.TargetFanSpeeds[i])]
              v(j) == FanTemperatureSourceConfig_ValidateFields(
                        r.c.FanTemperatureSources[j])
              srcs == DOMAIN r.c.FanTemperatureSources
              bad  == { j \in srcs : v(j).e # "" }
              upto == IF bad = {} THEN Len(r.c.FanTemperatureSources) + 1
                      ELSE SetMin(bad)
          IN  [e |-> IF bad = {} THEN "" ELSE v(upto).e,
               warnings |-> Cardinality(Warned(r.c.TargetFanSpeeds)),
               service_config |->
                 [r.c EXCEPT
                    !.TargetFanSpeeds = tfs,
                    !.FanTemperatureSources =
                       [j \in srcs |-> IF j < upto THEN v(j).c ELSE @[j]]]]

\* ServiceConfig_Write: the file written
ServiceConfig_Write(c) ==
  [parses |-> TRUE,
   SelectedConfigId |-> c.SelectedConfigId,
   EmbeddedControllerType |->
     IF c.EmbeddedControllerType # "EmbeddedControllerType_Unset"
     THEN EmbeddedControllerType_ToString(c.EmbeddedControllerType)
     ELSE Absent,
   TargetFanSpeeds |->
     IF Size(c.TargetFanSpeeds) # 0
     THEN Some([j \in 1..Size(c.TargetFanSpeeds) |->
                  Number("double", c.TargetFanSpeeds[j - 1] * DoubleSteps)])
     ELSE None,
   FanTemperatureSources |->
     IF Len(c.FanTemperatureSources) # 0
     THEN Some([j \in DOMAIN c.FanTemperatureSources |->
                  LET ftsc == c.FanTemperatureSources[j]
                  IN  [FanIndex |-> ftsc.FanIndex,
                       TemperatureAlgorithmType |->
                         TemperatureAlgorithmType_ToString(
                           ftsc.TemperatureAlgorithmType),
                       Sensors |-> IF Len(ftsc.Sensors) # 0
                                   THEN Some(ftsc.Sensors) ELSE None]])
     ELSE None]

\* a service config file is about to be loaded into the zeroed service_config
ServiceConfigEnv ==
  [unit : {"service_config"}, file : ConfigFiles,
   service_config : {ZeroServiceConfig}, written : {ZeroServiceConfig}]

\* ServiceConfig_Init(options.service_config): at the start, and again
\* after the file has been written
Call_ServiceConfig_Init ==
  /\ env.unit = "service_config"
  /\ \/ calls = << >>
     \/ calls = << "ServiceConfig_Init", "ServiceConfig_Write" >> /\ ret.e = ""
  /\ LET r == ServiceConfig_Init(env.file, env.service_config)
     IN  /\ env' = [env EXCEPT !.service_config = r.service_config]
         /\ ret' = [e |-> r.e, warnings |-> r.warnings]
  /\ calls' = Append(calls, "ServiceConfig_Init")
  /\ UNCHANGED progVars

\* ServiceConfig_Write(options.service_config) of the config loaded;
\* write_file can fail
Call_ServiceConfig_Write ==
  /\ env.unit = "service_config"
  /\ calls = << "ServiceConfig_Init" >>
  /\ ret.e = ""
  /\ \/ /\ env' = [env EXCEPT !.file = ServiceConfig_Write(env.service_config),
                              !.written = env.service_config]
        /\ ret' = [e |-> "", warnings |-> 0]
     \/ /\ env' = [env EXCEPT !.written = env.service_config]
        /\ ret' = [e |-> "write_file", warnings |-> 0]
  /\ calls' = Append(calls, "ServiceConfig_Write")
  /\ UNCHANGED progVars

(***************************************************************************)
(* The register write engine of service.c on an EC whose reads and writes  *)
(* can fail                                                                *)
(***************************************************************************)
\* the bytes an EC register holds at the start
ByteSamples == {0, 15, 170, 255}
\* the values of the uint8_t parameter of ApplyRegisterWriteConfig
ValueSamples == {0, 5, 60, 255}

\* the registers of the EC
Regs == { RegisterWriteConfigurations[j].Register :
            j \in DOMAIN RegisterWriteConfigurations }

\* an error of the EC operation op on register or fan at; err_success()
Err(op, at) == [op |-> op, at |-> at]
err_success == Err("", 0)

\* uint8_t & and |
RECURSIVE BitAnd(_, _)
BitAnd(a, b) ==
  IF a = 0 \/ b = 0 THEN 0
  ELSE (a % 2) * (b % 2) + 2 * BitAnd(a \div 2, b \div 2)

RECURSIVE BitOr(_, _)
BitOr(a, b) ==
  IF a = 0 THEN b
  ELSE IF b = 0 THEN a
  ELSE (IF a % 2 = 1 \/ b % 2 = 1 THEN 1 ELSE 0) + 2 * BitOr(a \div 2, b \div 2)

\* ec->ReadByte / ec->WriteByte / Fan_ECReset entered in the record of the
\* operations on the EC
Operated(ec, op, at, value, err) ==
  [ec EXCEPT !.ops = Append(@, [op |-> op, at |-> at, value |-> value,
                                e |-> err])]

\* ec->WriteByte(register_, value): the error and the EC
WriteByte(ec, register_, value) ==
  IF register_ \in ec.writeFails
  THEN [e |-> Err("WriteByte", register_),
        ec |-> Operated(ec, "WriteByte", register_, value,
                        Err("WriteByte", register_))]
  ELSE [e |-> err_success,
        ec |-> Operated([ec EXCEPT !.regs[register_] = value], "WriteByte",
                        register_, value, err_success)]

\* ApplyRegisterWriteConfig(register_, value, mode): the error and the EC
ApplyRegisterWriteConfig(ec, register_, value, mode) ==
  IF mode # "Set"
  THEN IF register_ \in ec.readFails
       THEN [e |-> Err("ReadByte", register_),
             ec |-> Operated(ec, "ReadByte", register_, 0,
                             Err("ReadByte", register_))]
       ELSE LET mask == ec.regs[register_]
                read == Operated(ec, "ReadByte", register_, mask, err_success)
            IN  WriteByte(read, register_,
                          IF mode = "And" THEN BitAnd(value, mask)
                          ELSE IF mode = "Or" THEN BitOr(value, mask)
                          ELSE value)
  ELSE WriteByte(ec, register_, value)

\* ResetRegisterWriteConfigs_From: e_check() in the place of e_warn(), the
\* first failed reset ends the loop
RECURSIVE ReturnsAtError(_, _, _)
ReturnsAtError(ec, j, e_) ==
  IF j > Len(RegisterWriteConfigurations) THEN [e |-> e_, ec |-> ec]
  ELSE LET cfg == RegisterWriteConfigurations[j]
       IN  IF cfg.ResetRequired
           THEN LET a == ApplyRegisterWriteConfig(ec, cfg.Register,
                                                  cfg.ResetValue,
                                                  cfg.ResetWriteMode)
                IN  IF a.e # err_success THEN a
                    ELSE ReturnsAtError(a.ec, j + 1, a.e)
           ELSE ReturnsAtError(ec, j + 1, e_)

\* ResetRegisterWriteConfigs from configuration j on, e being the local e
RECURSIVE ResetRegisterWriteConfigs_From(_, _, _)
ResetRegisterWriteConfigs_From(ec, j, e_) ==
  IF j > Len(RegisterWriteConfigurations) THEN [e |-> e_, ec |-> ec]
  ELSE LET cfg == RegisterWriteConfigurations[j]
       IN  IF cfg.ResetRequired
           THEN LET a == ApplyRegisterWriteConfig(ec, cfg.Register,
                                                  cfg.ResetValue,
                                                  cfg.ResetWriteMode)
                IN  ResetRegisterWriteConfigs_From(a.ec, j + 1, a.e)
           ELSE ResetRegisterWriteConfigs_From(ec, j + 1, e_)

\* Fan_ECReset of the fans i.. of an attempt, r being the local r of ResetEC
RECURSIVE ResetEC_Fans(_, _, _)
ResetEC_Fans(ec, i, r) ==
  IF i >= ec.fans THEN [e |-> r, ec |-> ec]
  ELSE LET e_ == IF i \in ec.fanFails THEN Err("Fan_ECReset", i)
                 ELSE err_success
       IN  ResetEC_Fans(Operated(ec, "Fan_ECReset", i, 0, e_), i + 1,
                        IF e_ # err_success THEN e_ ELSE r)

\* the failures of the EC that pass after one attempt are over
Recovered(ec) ==
  IF ec.transient
  THEN [ec EXCEPT !.readFails = {}, !.writeFails = {}, !.fanFails = {}]
  ELSE ec

\* ResetEC with  tries  attempts left and the local r
RECURSIVE ResetEC_Tries(_, _, _)
ResetEC_Tries(ec, tries, r) ==
  IF tries = 0 THEN [e |-> r, ec |-> ec]
  ELSE LET c == ResetRegisterWriteConfigs_From(ec, 1, err_success)
           f == ResetEC_Fans(c.ec, 0, IF c.e # err_success THEN c.e ELSE r)
       IN  ResetEC_Tries(Recovered(f.ec), tries - 1, f.e)

\* an EC before ApplyRegisterWriteConfig is applied
ApplyEnv ==
  [unit : {"ApplyRegisterWriteConfig"},
   regs : { [r \in Regs |-> b] : b \in ByteSamples },
   readFails : SUBSET Regs, writeFails : SUBSET Regs,
   fans : {0}, fanFails : {{}}, transient : {FALSE}, ops : {<< >>}]

\* an EC and the fans before ResetEC is applied
ResetEnv ==
  { v \in [unit : {"ResetEC"},
           regs : { [r \in Regs |-> 255] },
           readFails : SUBSET Regs, writeFails : SUBSET Regs,
           fans : 0..MaxFans, fanFails : SUBSET FanIdx,
           transient : BOOLEAN, ops : {<< >>}] :
      v.fanFails \subseteq 0..(v.fans - 1) }

Call_ApplyRegisterWriteConfig ==
  /\ env.unit = "ApplyRegisterWriteConfig"
  /\ calls = << >>
  /\ \E register_ \in Regs, value \in ValueSamples,
        mode \in {"Set", "And", "Or"} :
       LET a == ApplyRegisterWriteConfig(env, register_, value, mode)
       IN  /\ env' = a.ec
           /\ ret' = [e |-> a.e, register_ |-> register_, value |-> value,
                      mode |-> mode, current |-> env.regs[register_]]
  /\ calls' = Append(calls, "ApplyRegisterWriteConfig")
  /\ UNCHANGED progVars

Call_ResetEC ==
  /\ env.unit = "ResetEC"
  /\ calls = << >>
  /\ LET a == ResetEC_Tries(env, 3, err_success)
     IN  /\ env' = a.ec
         /\ ret' = [e |-> a.e]
  /\ calls' = Append(calls, "ResetEC")
  /\ UNCHANGED progVars

(***************************************************************************)
(* model_config.c: ModelConfig_Validate                                    *)
(***************************************************************************)
\* largest number of FanConfigurations of a model config that is validated
MaxFanConfigurations == 2

Threshold(up, down, speed) ==
  [UpThreshold |-> up, DownThreshold |-> down, FanSpeed |-> speed]

Config_DefaultLegacyTemperatureThresholds ==
  << Threshold(0, 0, 0), Threshold(60, 48, 10), Threshold(63, 55, 20),
     Threshold(66, 59, 50), Threshold(68, 63, 70), Threshold(71, 67, 100) >>

\* TemperatureThresholds of a fan in a model config file
ThresholdTables ==
  { << >>,
    << Threshold(50, 50, 0) >>,
    << Threshold(60, 70, 0) >>,
    << Threshold(60, 50, 0), Threshold(60, 55, 100) >>,
    << Threshold(90, 60, 100), Threshold(60, 50, 0) >>,
    << Threshold(60, 50, 0), Threshold(70, 80, 100) >> }

\* the min / max members of a fan in a model config file
SpeedValues ==
  { [MinSpeedValue |-> 0, MaxSpeedValue |-> mx,
     IndependentReadMinMaxValues |-> x[1],
     MinSpeedValueRead |-> 0, MaxSpeedValueRead |-> x[2]] :
      mx \in {0, 255},
      x \in { << "Boolean_Unset", 0 >>, << "Boolean_False", 0 >>,
              << "Boolean_True", 0 >>, << "Boolean_True", 255 >> } }

\* the FanConfigurations of a model config file
FanConfigurationValues ==
  { [speeds |-> v, TemperatureThresholds |-> t] :
      v \in SpeedValues, t \in ThresholdTables }

\* the model configs: fieldErrors says that a member is missing or out of
\* its range
ModelConfigs ==
  [fieldErrors : BOOLEAN,
   LegacyTemperatureThresholdsBehaviour : BOOLEAN,
   CriticalTemperature : {75},
   FanConfigurations : SeqsUpTo(FanConfigurationValues, MaxFanConfigurations)]

\* FanConfiguration_ValidateFields: an option that is not set gets its
\* default
FanConfiguration_ValidateFields(f) ==
  [f EXCEPT !.speeds.IndependentReadMinMaxValues =
              IF @ = "Boolean_Unset" THEN "Boolean_False" ELSE @]

\* the checks of the thresholds of a fan: the first error, or ""
ThresholdsError(ths) ==
  LET bad(j) == \/ ths[j].UpThreshold < ths[j].DownThreshold
                \/ \E k \in DOMAIN ths :
                     k # j /\ ths[k].UpThreshold = ths[j].UpThreshold
      first  == SetMin({ j \in DOMAIN ths : bad(j) })
  IN  IF \A j \in DOMAIN ths : ~bad(j) THEN ""
      ELSE IF ths[first].UpThreshold < ths[first].DownThreshold
      THEN "UpThreshold cannot be less than DownThreshold"
      ELSE "Duplicate UpThreshold"

\* if (! f->TemperatureThresholds.size): the default table is copied
WithDefaultThresholds(f, legacy) ==
  IF Len(f.TemperatureThresholds) = 0
  THEN [f EXCEPT !.TemperatureThresholds =
                   IF legacy THEN Config_DefaultLegacyTemperatureThresholds
                   ELSE Config_DefaultTemperatureThresholds]
  ELSE f

\* the body of the loop over FanConfigurations: the error and the fan
ModelConfig_Validate_Fan(f, legacy) ==
  LET v == FanConfiguration_ValidateFields(f)
      d == WithDefaultThresholds(v, legacy)
  IN  IF v.speeds.MinSpeedValue = v.speeds.MaxSpeedValue
      THEN [e |-> "MinSpeedValue and MaxSpeedValue cannot be the same", f |-> v]
      ELSE IF v.speeds.IndependentReadMinMaxValues # "Boolean_False" /\
              v.speeds.MinSpeedValueRead = v.speeds.MaxSpeedValueRead
      THEN [e |-> "MinSpeedValueRead and MaxSpeedValueRead cannot be the same",
            f |-> v]
      ELSE [e |-> ThresholdsError(d.TemperatureThresholds), f |-> d]

\* ModelConfig_Validate(c): the error and the config
ModelConfig_Validate(c) ==
  IF c.fieldErrors
  THEN [e |-> "ModelConfig_ValidateFields", c |-> c]
  ELSE
    LET v(j) == ModelConfig_Validate_Fan(c.FanConfigurations[j],
                                         c.LegacyTemperatureThresholdsBehaviour)
        bad  == { j \in DOMAIN c.FanConfigurations : v(j).e # "" }
        upto == IF bad = {} THEN Len(c.FanConfigurations) ELSE SetMin(bad)
    IN  [e |-> IF bad = {} THEN "" ELSE v(upto).e,
         c |-> [c EXCEPT !.FanConfigurations =
                  [j \in DOMAIN @ |-> IF j <= upto THEN v(j).f ELSE @[j]]]]

\* a block of memory: the function that allocated it, or the static array it
\* is, and the fan it was allocated for
Block(by, j) == << by, j >>
NullData == Block("NULL", 0)

\* the data of the static default tables
StaticData(legacy) ==
  IF legacy THEN Block("_Config_DefaultLegacyTemperatureThresholds", 0)
  ELSE Block("_Config_DefaultTemperatureThresholds", 0)

\* copy_array_of_TemperatureThreshold(dest, src) for fan j: dest->data, a
\* block from Mem_Malloc that memcpy fills from src->data
CopiedData(src, j) == Block("copy_array_of_TemperatureThreshold", j)

\* TemperatureThresholds.data of fan j after ModelConfig_Validate made c of
\* given: the block ModelConfig_FromJson allocated for the table of the file,
\* or that of the copy of a default table, or NULL
ThresholdsData(given, c, j) ==
  IF Len(given.FanConfigurations[j].TemperatureThresholds) # 0
  THEN Block("ModelConfig_FromJson", j)
  ELSE IF Len(c.FanConfigurations[j].TemperatureThresholds) # 0
       THEN CopiedData(StaticData(c.LegacyTemperatureThresholdsBehaviour), j)
       ELSE NullData

\* ModelConfig_Free: the TemperatureThresholds.data passed to Mem_Free, in
\* order; Mem_Free(NULL) frees nothing
ModelConfig_Free(data) == SelectSeq(data, LAMBDA d : d # NullData)

\* a model config that has been loaded into Service_Model_Config
ModelConfigEnv ==
  [unit : {"ModelConfig_Validate"}, given : ModelConfigs, c : {<< >>},
   data : {<< >>}, written : {{}}, freed : {<< >>}]

\* Service_Init: e = ModelConfig_Validate(&Service_Model_Config);
\* if (e) goto error
Call_ModelConfig_Validate ==
  /\ env.unit = "ModelConfig_Validate"
  /\ calls = << >>
  /\ LET r == ModelConfig_Validate(env.given)
         data == [j \in DOMAIN r.c.FanConfigurations |->
                    ThresholdsData(env.given, r.c, j)]
     IN  /\ env' = [env EXCEPT
                     !.c = r.c,
                     !.data = data,
                     !.written =
                        { data[j] : j \in { k \in DOMAIN data :
                            /\ data[k] # NullData
                            /\ Len(env.given.FanConfigurations[k]
                                     .TemperatureThresholds) = 0 } }]
         /\ ret' = [e |-> r.e,
                    Service_Init |-> IF r.e # "" THEN "error" ELSE "continues"]
  /\ calls' = Append(calls, "ModelConfig_Validate")
  /\ UNCHANGED progVars

\* Service_Cleanup, case Initialized_2_Model_Config:
\* ModelConfig_Free(&Service_Model_Config), which ends with memset(c, 0)
Call_ModelConfig_Free ==
  /\ env.unit = "ModelConfig_Validate"
  /\ calls = << "ModelConfig_Validate" >>
  /\ env' = [env EXCEPT !.freed = ModelConfig_Free(env.data), !.c = << >>]
  /\ calls' = Append(calls, "ModelConfig_Free")
  /\ UNCHANGED << ret, progVars >>

(***************************************************************************)
(* The listening socket of the control server: Server_Init, Server_Close   *)
(***************************************************************************)
\* the descriptor socket() returns
NewSocket == 3

\* the server before Server_Init: Server_FD is -1; at NBFC_SOCKET_PATH there
\* is no file or the socket of another instance; fails names the call of
\* Server_Init that fails for some other reason, if any
ServerEnv ==
  [unit : {"Server"}, Server_FD : {-1}, found : {"absent", "other"},
   path : {"found"}, fails : {"", "socket()", "bind()", "chmod()", "listen()"},
   ops : {<< >>}]

\* the file at NBFC_SOCKET_PATH
SocketPath(sv) == IF sv.path = "found" THEN sv.found ELSE sv.path

\* Server_Close(): if (Server_FD != -1) { close; unlink; Server_FD = -1 }
Server_Close(sv) ==
  IF sv.Server_FD # -1
  THEN [sv EXCEPT !.ops = @ \o << << "close", "Server_FD" >>,
                                  << "unlink", SocketPath(sv) >> >>,
                  !.path = "absent",
                  !.Server_FD = -1]
  ELSE sv

\* Server_Init(): socket(), bind(), chmod(), listen(); the first call that
\* fails gives the error, and Server_Close() is called.  bind() fails when
\* a file exists at the path; it creates the socket file when it succeeds.
Server_Init(sv) ==
  IF sv.fails = "socket()"
  THEN [e |-> "socket()", sv |-> Server_Close([sv EXCEPT !.Server_FD = -1])]
  ELSE LET opened == [sv EXCEPT !.Server_FD = NewSocket]
           bound  == [opened EXCEPT !.path = "own"]
       IN  IF SocketPath(opened) # "absent" \/ sv.fails = "bind()"
           THEN [e |-> "bind()", sv |-> Server_Close(opened)]
           ELSE IF sv.fails \in {"chmod()", "listen()"}
                THEN [e |-> sv.fails, sv |-> Server_Close(bound)]
                ELSE [e |-> "", sv |-> bound]

Call_Server_Init ==
  /\ env.unit = "Server"
  /\ calls = << >>
  /\ LET a == Server_Init(env)
     IN  /\ env' = a.sv
         /\ ret' = [e |-> a.e]
  /\ calls' = Append(calls, "Server_Init")
  /\ UNCHANGED progVars

\* Server_Close() called by the owner of the server, once and once more
Call_Server_Close ==
  /\ env.unit = "Server"
  /\ calls # << >>
  /\ Len(calls) < 3
  /\ env' = Server_Close(env)
  /\ calls' = Append(calls, "Server_Close")
  /\ UNCHANGED << ret, progVars >>

FunctionsInit ==
  /\ Standby
  /\ calls = << >>
  /\ ret = << >>
  /\ env \in ServiceConfigEnv \cup ApplyEnv \cup ResetEnv \cup ModelConfigEnv
              \cup ServerEnv

FunctionsNext ==
  \/ Call_ServiceConfig_Init
  \/ Call_ServiceConfig_Write
  \/ Call_ApplyRegisterWriteConfig
  \/ Call_ResetEC
  \/ Call_ModelConfig_Validate
  \/ Call_ModelConfig_Free
  \/ Call_Server_Init
  \/ Call_Server_Close

Functions == FunctionsInit /\ [][FunctionsNext]_vars


(***************************************************************************)
(* Properties                                                              *)
(***************************************************************************)
\* the main thread is in the body of a tick
InTickBody == mainPc \in {"tick_read", "tick_rwc", "tick_fan"}

\* worker x is between pthread_mutex_lock and pthread_mutex_unlock
InHandler(x) == w[x].pc \in {"set_apply", "status_read", "unlock", "undefined"}

\* the threads that execute a tick body or a command handler
Executing ==
  (IF InTickBody THEN {MainThread} ELSE {}) \cup
  { WorkerThread(x) : x \in { y \in Workers : InHandler(y) } }

\* worker x has sent a status reply and not yet left the critical section
StatusDone(x) == w[x].pc = "unlock" /\ w[x].sent = << StatusReply >>

\* worker x has run a well-formed set-fan-speed to its end and not yet left
\* the critical section
SetFanDone(x) ==
  /\ w[x].pc = "unlock"
  /\ w[x].cmd = "set-fan-speed"
  /\ ~w[x].claimReject

\* C1: at no time are two of {the body of a Service_Loop tick, a
\* set-fan-speed handler, a status handler} executing at the same time,
\* for every number of client connections; the one that executes holds
\* Service_Lock
C1_MutualExclusion ==
  /\ Cardinality(Executing) <= 1
  /\ \A t \in Executing : Service_Lock = t

\* C1: a handler runs while another client and the control loop wait
C1_Witness ==
  /\ w[1].pc = "set_apply"
  /\ w[2].pc = "lock"
  /\ w[2].cmd = "status"
  /\ mainPc = "loop"
  /\ ~quit

\* C2 as stated: whether a tick completes or aborts, a status reply reports
\* the fans as they were before that tick or as they are after it processed
\* every fan
C2_Original ==
  \A x \in Workers :
    StatusDone(x) =>
      ~(tickTorn /\ Arr(w[x].reply) = Snapshot(Service_Fans))

\* C2, amended: a status reply never shows a tick in progress: it reports
\* the fans as they are between two ticks, and they do not change while it
\* reads them.  After a tick that completed, every fan has been processed;
\* only a tick that aborted on an error leaves fans of which some carry new
\* values and the others the old ones.
C2_NoTickInProgress ==
  /\ \A x \in Workers :
       /\ StatusDone(x) =>
            /\ Arr(w[x].reply) = Snapshot(Service_Fans)
            /\ ~InTickBody /\ mainPc # "tick_unlock"
       /\ w[x].pc = "status_read" =>
            /\ ~InTickBody /\ mainPc # "tick_unlock"
            /\ \A j \in 1..Len(w[x].reply) :
                 w[x].reply[j] = Reported(Service_Fans[j - 1])
  /\ tickTorn => stepFailed

\* C2: a status reply is complete after a tick that changed a fan and then
\* aborted, before the next tick
C2_Witness ==
  \E x \in Workers :
    /\ StatusDone(x)
    /\ tickTorn
    /\ mainPc = "tick_judge"
    /\ Size(Service_Fans) = MaxFans

\* C3: under any interleaving of set-fan-speed and status requests a status
\* reply reports, for all fans together, the mode, CurrentSpeed, TargetSpeed
\* and RequestedSpeed of one state in which no set-fan-speed is between its
\* first and its last fan
C3_OneCommittedState ==
  \A x \in Workers :
    /\ w[x].pc = "status_read" \/ StatusDone(x) =>
         /\ \A y \in Workers : w[y].pc # "set_apply"
         /\ \A j \in 1..Len(w[x].reply) :
              LET f == Service_Fans[j - 1]
                  r == w[x].reply[j]
              IN  /\ r.AutoMode = (f.mode = "Auto")
                  /\ r.CurrentSpeed = f.currentSpeed
                  /\ r.TargetSpeed = f.targetSpeed
                  /\ r.RequestedSpeed = f.requestedSpeed
    /\ StatusDone(x) => Len(w[x].reply) = Size(Service_Fans)

\* C3: a status reply is complete while another client waits with a
\* set-fan-speed, after a set-fan-speed has made a fan Fixed
C3_Witness ==
  \E x, y \in Workers :
    /\ StatusDone(x)
    /\ w[y].pc = "lock"
    /\ w[y].cmd = "set-fan-speed"
    /\ \E i \in DOMAIN Service_Fans : Service_Fans[i].mode = "Fixed"

\* C4 as stated: every mutation of Service_Fans, service_config or the EC
\* that occurs while the server thread or a worker exists is done by a
\* thread that holds Service_Lock
C4_Original == unlockedMutation = {}

\* C5 as stated: the failure counter counts the ticks in a row in which a
\* step failed, and the process exits from the loop exactly on the 100th
C5_Original ==
  /\ failures = realFailures
  /\ mainPc = "exit_failure" => realFailures >= Service_Max_Failures

\* C6 as stated: a set-fan-speed whose Fan is not an integer in
\* 0..fanCount-1, whose Speed is missing, not a number or "auto", or a number
\* outside 0..100 (reply "Speed: Invalid value"), or that has another key,
\* is rejected with an Error reply and leaves the mode and requested speed
\* of every fan and the persisted TargetFanSpeeds unchanged
C6_Original ==
  \A x \in Workers :
    w[x].claimReject =>
      /\ w[x].pc # "set_apply"
      /\ w[x].pc = "unlock" =>
           /\ w[x].err # ""
           /\ w[x].sent = << >>
           /\ w[x].claimReply # "" => w[x].err = w[x].claimReply
           /\ w[x].before = << ModeRequested(Service_Fans), persisted >>
      /\ w[x].pc = "closed" => w[x].sent = << ErrorReply >>

\* the effect of the set-fan-speed that worker x has run on fan i, with the
\* requested speed as the fan is to hold it
SetFanEffect(x, i, held) ==
  LET r == w[x].req
      f == Service_Fans[i]
  IN  IF ~r.fanGiven \/ r.fan = i
      THEN IF r.auto THEN f.mode = "Auto"
           ELSE f.mode = "Fixed" /\ f.requestedSpeed * DoubleSteps = held
      ELSE ModeRequested(Service_Fans)[i] = w[x].before[1][i]

\* a status reply reports AutoMode as the fans have it
AutoModeReported ==
  \A y \in Workers :
    StatusDone(y) =>
      \A j \in 1..Len(w[y].reply) :
        w[y].reply[j].AutoMode = (Service_Fans[j - 1].mode = "Auto")

\* C7 as stated: a valid set-fan-speed changes the fan given by Fan only (to
\* Auto, or to Fixed with requestedSpeed = Speed), or every fan if Fan is
\* omitted; the reply is {"Status":"OK"}; a following status reports
\* AutoMode accordingly
C7_Original ==
  /\ \A x \in Workers :
       SetFanDone(x) =>
         /\ \A i \in DOMAIN Service_Fans :
              SetFanEffect(x, i, w[x].req.speed)
         /\ w[x].sent = << OkReply >>
  /\ AutoModeReported

\* C7, amended: a valid set-fan-speed changes the fan given by Fan only (to
\* Auto, or to Fixed with requestedSpeed = Speed converted to float), or
\* every fan if Fan is omitted; the reply is {"Status":"OK"} if the new
\* TargetFanSpeeds were written to the config file and the reply was sent,
\* and an Error reply otherwise, the fans staying changed; a following
\* status reports AutoMode accordingly
C7_SetFanEffect ==
  /\ \A x \in Workers :
       SetFanDone(x) =>
         /\ \A i \in DOMAIN Service_Fans :
              SetFanEffect(x, i, CastFloat(w[x].req.speed) * DoubleSteps)
         /\ \/ /\ w[x].sent = << OkReply >>
               /\ w[x].err = ""
               /\ configWritable
               /\ persisted =
                    [i \in DOMAIN Service_Fans |->
                       IF Service_Fans[i].mode = "Auto" THEN -1
                       ELSE Service_Fans[i].requestedSpeed]
            \/ /\ w[x].sent = << >>
               /\ w[x].err = "Protocol_Send_Json"
               /\ configWritable
            \/ /\ w[x].sent = << >>
               /\ w[x].err = "ServiceConfig_Write"
               /\ ~configWritable
  /\ AutoModeReported

\* C7: a set-fan-speed for one fan of several has changed that fan and was
\* answered with OK
C7_Witness ==
  \E x \in Workers :
    /\ SetFanDone(x)
    /\ w[x].req.fanGiven
    /\ w[x].sent = << OkReply >>
    /\ Size(Service_Fans) = MaxFans
    /\ ModeRequested(Service_Fans) # w[x].before[1]

\* C8: while the service runs read-only no EC write is issued by
\* Service_Init, Service_Loop, the set-fan-speed handler or Service_Cleanup;
\* the fan state is still updated: a complete tick leaves every fan with the
\* speed and temperature read and the target speed that follows from them,
\* and a set-fan-speed sets the mode
C8_ReadOnly ==
  read_only =>
    /\ ecLog = {}
    /\ mainPc = "tick_unlock" /\ ~stepFailed =>
         \A i \in DOMAIN Service_Fans :
           LET f == Service_Fans[i]
           IN  /\ f.currentSpeed \in SpeedReadings
               /\ f.temperature \in temperatures
               /\ f.isCritical = (f.temperature >= CriticalTemperature)
               /\ f.targetSpeed =
                    IF f.isCritical THEN 100
                    ELSE IF f.mode = "Auto"
                         THEN Config_DefaultTemperatureThresholds[f.threshold].FanSpeed
                         ELSE f.requestedSpeed
    /\ \A x \in Workers :
         SetFanDone(x) =>
           \A i \in DOMAIN Service_Fans :
             ~w[x].req.fanGiven \/ w[x].req.fan = i =>
               (Service_Fans[i].mode = "Auto") = w[x].req.auto

\* C8: read-only, a tick has processed every fan after a client's
\* set-fan-speed was answered with OK and the service has torn nothing down
C8_Witness ==
  /\ read_only
  /\ mainPc = "tick_unlock"
  /\ ~stepFailed
  /\ Size(Service_Fans) = MaxFans
  /\ \E i \in DOMAIN Service_Fans : Service_Fans[i].mode = "Fixed"
  /\ \E x \in Workers : w[x].pc = "closed" /\ w[x].sent = << OkReply >>

\* Service_State at each position of Service_Init
StageAt(pc) ==
  CASE pc = "init_service_config" -> 0
    [] pc = "init_model_config" -> 1
    [] pc \in {"init_validate", "init_fans"} -> 2
    [] pc = "init_ec" -> 3
    [] pc \in {"init_rwc", "init_sensors"} -> 4
    [] pc = "init_filters" -> 5
    [] pc \in {"init_bind", "start"} -> LastStage
    [] OTHER -> -1

\* the stages n, n-1, ..., 1
Descending(n) == [j \in 1..n |-> n + 1 - j]

\* C9: if Service_Init fails after Service_State reached N, the cleanup
\* tears down the stages N, N-1, ..., 1 in that order and none above N, and
\* Service_Init returns with Service_State = 0; on success Service_State is
\* 6; during Init it never decreases: at each step it is the number of the
\* stages completed so far
C9_StagedRollback ==
  /\ StageAt(mainPc) # -1 => Service_State = StageAt(mainPc)
  /\ mainPc = "cleanup" =>
       Service_State = failStage /\ failStage \in 0..LastStage
  /\ mainPc = "init_failed" =>
       /\ teardownLog = Descending(failStage)
       /\ Service_State = 0

\* C9: Service_Init has failed in stage 5 and the cleanup has run
C9_Witness ==
  /\ mainPc = "init_failed"
  /\ failStage = 5
  /\ Len(teardownLog) = 5

\* C10 as stated: after Service_Init returned an error and after the
\* Service_Cleanup that follows a successful Init, everything acquired
\* during initialization has been released exactly once
C10_Original ==
  mainPc \in {"init_failed", "cleaned"} =>
    /\ \A r \in ResNames : res[r] \in {"none", "freed"}
    /\ \A i \in FanIdx : filt[i] \in {"none", "freed"}

\* C11: after a successful Service_Init every fan that has an entry in the
\* loaded TargetFanSpeeds is in Fixed mode with that entry as requested
\* speed if the entry is >= 0 and in Auto mode if it is -1, and every fan
\* without an entry is in Auto mode
C11_TargetFanSpeedsApplied ==
  mainPc = "start" =>
    \A i \in DOMAIN Service_Fans :
      IF i \in DOMAIN TargetFanSpeeds
      THEN /\ TargetFanSpeeds[i] >= 0 =>
                /\ Service_Fans[i].mode = "Fixed"
                /\ Service_Fans[i].requestedSpeed = TargetFanSpeeds[i]
           /\ TargetFanSpeeds[i] = -1 => Service_Fans[i].mode = "Auto"
           /\ TargetFanSpeeds[i] >= 0 \/ TargetFanSpeeds[i] = -1
      ELSE Service_Fans[i].mode = "Auto"

\* C11: the service has booted with TargetFanSpeeds = [50, -1] on a model
\* of two fans
C11_Witness ==
  /\ mainPc = "start"
  /\ Size(Service_Fans) = 2
  /\ TargetFanSpeeds = Arr(<<50, -1>>)
  /\ Service_Fans[0].mode = "Fixed"
  /\ Service_Fans[0].requestedSpeed = 50
  /\ Service_Fans[1].mode = "Auto"

\* worker x has run Service_WriteTargetFanSpeedsToConfig and not yet
\* released the lock
WroteBack(x) ==
  /\ Serving
  /\ w[x].pc = "unlock"
  /\ w[x].cmd = "set-fan-speed"
  /\ w[x].err \in {"", "ServiceConfig_Write", "Protocol_Send_Json"}

\* -1 for a fan in Auto mode, the requested speed of a fan in Fixed mode
Mirrored(fans) ==
  [i \in DOMAIN fans |->
     IF fans[i].mode = "Auto" THEN -1 ELSE fans[i].requestedSpeed]

\* the server has started and TargetFanSpeeds has one entry per configured fan
SizeKept == serverPc # "none" /\ Size(TargetFanSpeeds) = FanCount

FloatsRead(file) ==
  [i \in 0..(Len(MemberSeq(file.TargetFanSpeeds)) - 1) |->
     float_FromJson(MemberSeq(file.TargetFanSpeeds)[i + 1]).v]

\* a file that cannot be loaded whatever the values of its numbers are
Defective(file) ==
  \/ ~file.parses
  \/ file.SelectedConfigId = Absent
  \/ file.EmbeddedControllerType \notin
       {Absent, "ec_sys", "acpi_ec", "dev_port", "dummy", "ec_sys_linux",
        "ec_acpi", "ec_linux"}
  \/ \E j \in DOMAIN MemberSeq(file.TargetFanSpeeds) :
       MemberSeq(file.TargetFanSpeeds)[j].type \notin {"integer", "double"}
  \/ \E j \in DOMAIN MemberSeq(file.FanTemperatureSources) :
       LET t == MemberSeq(file.FanTemperatureSources)[j]
       IN  \/ t.TemperatureAlgorithmType \notin {Absent, "Average", "Min", "Max"}
           \/ t.FanIndex = None
           \/ t.FanIndex[1] < 0

\* ServiceConfig_Init has been applied to the file of env
Loaded ==
  /\ calls = << "ServiceConfig_Init" >>
  /\ env.unit = "service_config"

\* C13: after ServiceConfig_Init succeeds every entry of TargetFanSpeeds is -1
\* or lies in 0..100: an entry read above 100 became 100, a negative entry
\* other than -1 became -1, every other entry is as read; the entries out of
\* range are warned about, and the load fails only for a file that is
\* defective whatever its numbers are.
C13_TargetFanSpeedsClamped ==
  Loaded =>
    /\ (ret.e # "") = Defective(env.file)
    /\ ret.e = "" =>
         LET read == FloatsRead(env.file)
             tfs  == env.service_config.TargetFanSpeeds
         IN  /\ DOMAIN tfs = DOMAIN read
             /\ \A i \in DOMAIN read :
                  /\ tfs[i] = -1 \/ (0 <= tfs[i] /\ tfs[i] <= 100)
                  /\ read[i] > 100 => tfs[i] = 100
                  /\ (read[i] < 0 /\ read[i] # -1) => tfs[i] = -1
                  /\ (read[i] = -1 \/ (0 <= read[i] /\ read[i] <= 100)) =>
                       tfs[i] = read[i]
             /\ ret.warnings =
                  Cardinality({ i \in DOMAIN read :
                                  ~(read[i] = -1 \/
                                    (0 <= read[i] /\ read[i] <= 100)) })

\* a file with the entries 150 and -5 is loaded as 100 and -1 with two warnings
C13_Witness ==
  /\ Loaded
  /\ ret.e = ""
  /\ FloatsRead(env.file) = Arr(<< 150, -5 >>)
  /\ env.service_config.TargetFanSpeeds = Arr(<< 100, -1 >>)
  /\ ret.warnings = 2

\* the file written by ServiceConfig_Write has been loaded again
LoadedAgain ==
  /\ calls = << "ServiceConfig_Init", "ServiceConfig_Write", "ServiceConfig_Init" >>
  /\ env.unit = "service_config"

\* C14: service-config round trip: when a service_config that was loaded, and
\* so satisfies the clamping rules, is written by ServiceConfig_Write and the
\* written file is loaded by ServiceConfig_Init, the load succeeds and yields
\* the same SelectedConfigId, EmbeddedControllerType, TargetFanSpeeds and
\* FanTemperatureSources (FanIndex, algorithm and sensors of every entry) as
\* before the write.
C14_RoundTrip ==
  LoadedAgain =>
    /\ ret.e = ""
    /\ env.service_config.SelectedConfigId = env.written.SelectedConfigId
    /\ env.service_config.EmbeddedControllerType =
         env.written.EmbeddedControllerType
    /\ env.service_config.TargetFanSpeeds = env.written.TargetFanSpeeds
    /\ Len(env.service_config.FanTemperatureSources) =
         Len(env.written.FanTemperatureSources)
    /\ \A j \in DOMAIN env.written.FanTemperatureSources :
         LET a == env.service_config.FanTemperatureSources[j]
             b == env.written.FanTemperatureSources[j]
         IN  /\ a.FanIndex = b.FanIndex
             /\ a.TemperatureAlgorithmType = b.TemperatureAlgorithmType
             /\ a.Sensors = b.Sensors

\* a config with the type ECLinux, a fixed and an automatic speed and a source
\* without sensors has made the round trip
C14_Witness ==
  /\ LoadedAgain
  /\ env.written.EmbeddedControllerType = "EmbeddedControllerType_ECLinux"
  /\ env.written.TargetFanSpeeds = Arr(<< 100, -1 >>)
  /\ Len(env.written.FanTemperatureSources) = 1
  /\ env.written.FanTemperatureSources[1].Sensors = << >>
  /\ env.written.FanTemperatureSources[1].TemperatureAlgorithmType =
       "TemperatureAlgorithmType_Average"
  /\ env.service_config = env.written

\* the number of close() in the operations on a socket
Closes(ops) == Len(SelectSeq(ops, LAMBDA o : o = "close"))

\* C15: a worker closes the socket of its connection exactly once, as the last
\* thing it does with it, on every path through Server_Handle_Client; when
\* receiving, parsing, validation or the command gave an error, an Error
\* reply is sent on the socket immediately before the close.  Until the
\* handler has reached error: the socket is not closed.
C15_ClosedOnce ==
  \A x \in Workers :
    /\ w[x].pc # "closed" => w[x].socket = << >>
    /\ w[x].pc = "closed" =>
         LET ops == w[x].socket
         IN  /\ Closes(ops) = 1
             /\ ops[Len(ops)] = "close"
             /\ w[x].err # "" =>
                  /\ Len(ops) >= 2
                  /\ ops[Len(ops) - 1] = ErrorReply

\* a worker whose set-fan-speed failed has sent the Error reply and closed,
\* another has closed after the reply of a status or after the Error reply
\* to a message without Command
C15_Witness ==
  /\ \E x \in Workers :
       /\ w[x].pc = "closed"
       /\ w[x].err # ""
       /\ w[x].claimReply = "Speed: Invalid value"
       /\ w[x].socket = << ErrorReply, "close" >>
  /\ \E x \in Workers :
       /\ w[x].pc = "closed"
       /\ w[x].claimReply = ""
       /\ w[x].socket \in {<< StatusReply, "close" >>, << ErrorReply, "close" >>}

\* C16: the local failures of Server_Run is the number of Server_Loop
\* iterations that failed in a row (a successful iteration sets it to 0); the
\* server thread requests the shutdown, by setting quit and returning, exactly
\* when that number reaches Server_Max_Failures + 1, so up to Server_Max_Failures
\* failures in a row are tolerated.
C16_ServerFailures ==
  /\ Server_Run_failures = serverObs.consecutive
  /\ serverObs.consecutive <= Server_Max_Failures + 1
  /\ serverObs.shutdown <=> serverObs.consecutive = Server_Max_Failures + 1
  /\ serverObs.shutdown => quit /\ serverPc = "stopped"
  /\ (serverPc = "running" /\ ~quit) =>
       serverObs.consecutive <= Server_Max_Failures

\* after a successful iteration, whose worker has sent its reply,
\* Server_Max_Failures + 1 failures in a row made the server thread request
\* the shutdown
C16_Witness ==
  /\ \E x \in Workers : w[x].pc = "closed" /\ w[x].sent # << >>
  /\ serverObs.shutdown
  /\ Server_Run_failures = Server_Max_Failures + 1
  /\ quit

\* the registers whose configurations are due, in configuration order: all
\* when initializing, else those with the occasion OnWriteFanSpeed
DueRegisters(initializing) ==
  IF initializing THEN << 1, 2, 3 >> ELSE << 1, 3 >>

\* the current speed of a fan is off its target speed by more than 15
OffTarget(fans) ==
  \E i \in DOMAIN fans :
    \/ fans[i].currentSpeed - fans[i].targetSpeed > 15
    \/ fans[i].targetSpeed - fans[i].currentSpeed > 15

IsPrefix(a, b) ==
  /\ Len(a) <= Len(b)
  /\ \A j \in 1..Len(a) : a[j] = b[j]

\* C17 as stated: Service_Init applies every configuration; every tick that
\* is not read-only applies every configuration with the occasion
\* OnWriteFanSpeed; after the register writes of such a tick the
\* configurations applied are the due ones, in configuration order.
C17_Original ==
  /\ mainPc = "init_sensors" => registersWritten = DueRegisters(TRUE)
  /\ (mainPc = "tick_unlock" /\ ~read_only) =>
       Range(DueRegisters(FALSE)) \subseteq Range(registersWritten)
  /\ (mainPc = "tick_fan" /\ ~read_only) =>
       registersWritten = DueRegisters(OffTarget(Service_Fans))

\* C17: read-only, neither Service_Init nor a tick applies a configuration.
\* Otherwise Service_Init applies all configurations; a tick whose current-speed
\* readings all succeeded applies those with the occasion OnWriteFanSpeed, and
\* those with OnInitialization exactly if a fan is off its target by more
\* than 15; always in configuration order and up to the first configuration
\* that fails, which ends the tick (or Service_Init) with that error.  A tick
\* in which a reading failed applies none.
C17_RegisterWrites ==
  /\ read_only => registersWritten = << >>
  /\ \/ IsPrefix(registersWritten, DueRegisters(TRUE))
     \/ IsPrefix(registersWritten, DueRegisters(FALSE))
  /\ (mainPc = "init_sensors" /\ ~read_only) =>
       registersWritten = DueRegisters(TRUE)
  /\ mainPc = "tick_rwc" =>
       /\ re_init_required = OffTarget(Service_Fans)
       /\ registersWritten = << >>
  /\ (mainPc = "tick_fan" /\ ~read_only) =>
       registersWritten = DueRegisters(OffTarget(Service_Fans))
  /\ (mainPc = "tick_unlock" /\ ~read_only) =>
       /\ IsPrefix(registersWritten, DueRegisters(re_init_required))
       /\ registersWritten # DueRegisters(re_init_required) => e = "err"

\* a tick has applied the configurations of the registers 1 and 3 only: its
\* readings are off the targets by exactly 15
C17_Witness ==
  /\ mainPc = "tick_fan"
  /\ ~read_only
  /\ Size(Service_Fans) > 0
  /\ \A i \in DOMAIN Service_Fans :
       Service_Fans[i].currentSpeed - Service_Fans[i].targetSpeed = 15
  /\ registersWritten = << 1, 3 >>

\* bit k of the byte n is set
Bit(n, k) == (n \div (2 ^ k)) % 2 = 1

\* the writes among the operations on the EC
Writes(ops) == SelectSeq(ops, LAMBDA o : o.op = "WriteByte")
Reads(ops) == SelectSeq(ops, LAMBDA o : o.op = "ReadByte")

\* C18: ApplyRegisterWriteConfig(reg, value, mode) with mode Set reads
\* nothing and writes value to reg; with And / Or it reads reg once and, if
\* the read fails, writes nothing and returns the error of the read, else
\* writes to reg the byte that has bit k set exactly if value and the byte
\* read have (And) / value or the byte read has (Or) bit k set.  The byte
\* read is what reg held before the call, and the error of the write is
\* returned.
C18_ApplyRegisterWriteConfig ==
  (env.unit = "ApplyRegisterWriteConfig" /\ calls # << >>) =>
    LET reads  == Reads(env.ops)
        writes == Writes(env.ops)
        failed == ret.mode # "Set" /\ ret.register_ \in env.readFails
    IN  /\ Len(env.ops) = Len(reads) + Len(writes)
        /\ Len(reads) = IF ret.mode = "Set" THEN 0 ELSE 1
        /\ Len(writes) = IF failed THEN 0 ELSE 1
        /\ failed => ret.e = Err("ReadByte", ret.register_)
        /\ ~failed =>
             /\ env.ops[Len(env.ops)] = writes[1]
             /\ writes[1].at = ret.register_
             /\ ret.e = writes[1].e
             /\ ret.mode # "Set" =>
                  reads[1].at = ret.register_ /\ reads[1].value = ret.current
             /\ ret.mode = "Set" => writes[1].value = ret.value
             /\ writes[1].value \in 0..255
             /\ \A k \in 0..7 :
                  /\ ret.mode = "And" =>
                       (Bit(writes[1].value, k) <=>
                          Bit(ret.value, k) /\ Bit(ret.current, k))
                  /\ ret.mode = "Or" =>
                       (Bit(writes[1].value, k) <=>
                          Bit(ret.value, k) \/ Bit(ret.current, k))
             /\ ret.e = err_success => env.regs[ret.register_] = writes[1].value

\* the value 60 was written with And to a register holding 170: 40 is in it
C18_Witness ==
  /\ env.unit = "ApplyRegisterWriteConfig"
  /\ calls = << "ApplyRegisterWriteConfig" >>
  /\ ret.mode = "And" /\ ret.value = 60 /\ ret.current = 170
  /\ ret.e = err_success
  /\ env.regs[ret.register_] = 40
  /\ Len(env.ops) = 2

\* the operations on the EC that raised an error
Raised(ops) == SelectSeq(ops, LAMBDA o : o.e # err_success)

\* C19 as stated: ResetEC returns the most recent error that a reset operation
\* raised in any of its attempts, and success only if none raised an error.
C19_Original ==
  (env.unit = "ResetEC" /\ calls = << "ResetEC" >>) =>
    LET raised == Raised(env.ops)
    IN  /\ (ret.e = err_success) <=> (Len(raised) = 0)
        /\ Len(raised) > 0 => ret.e = raised[Len(raised)].e

\* a fan of a model config satisfies the cross-field rules
CrossFieldRules(f) ==
  /\ f.speeds.MinSpeedValue # f.speeds.MaxSpeedValue
  /\ f.speeds.IndependentReadMinMaxValues = "Boolean_True" =>
       f.speeds.MinSpeedValueRead # f.speeds.MaxSpeedValueRead
  /\ \A j \in DOMAIN f.TemperatureThresholds :
       f.TemperatureThresholds[j].UpThreshold >=
         f.TemperatureThresholds[j].DownThreshold
  /\ \A j, k \in DOMAIN f.TemperatureThresholds :
       j # k => f.TemperatureThresholds[j].UpThreshold #
                f.TemperatureThresholds[k].UpThreshold

Validated ==
  /\ env.unit = "ModelConfig_Validate"
  /\ calls = << "ModelConfig_Validate" >>

\* C20: after ModelConfig_Validate succeeds, every fan of the model config,
\* with the default thresholds where it had none, has MinSpeedValue #
\* MaxSpeedValue, MinSpeedValueRead # MaxSpeedValueRead if
\* IndependentReadMinMaxValues is true, UpThreshold >= DownThreshold in every
\* threshold and no UpThreshold twice; a config with a fan that violates one
\* of these is rejected with an error, and then Service_Init goes to error.
C20_CrossFieldRules ==
  Validated =>
    /\ ret.e = "" =>
         /\ \A j \in DOMAIN env.c.FanConfigurations :
              /\ CrossFieldRules(env.c.FanConfigurations[j])
              /\ env.c.FanConfigurations[j].speeds.IndependentReadMinMaxValues
                   \in {"Boolean_True", "Boolean_False"}
              /\ Len(env.c.FanConfigurations[j].TemperatureThresholds) > 0
         /\ \A j \in DOMAIN env.given.FanConfigurations :
              CrossFieldRules(env.given.FanConfigurations[j])
    /\ (\E j \in DOMAIN env.given.FanConfigurations :
          ~CrossFieldRules(env.given.FanConfigurations[j])) => ret.e # ""
    /\ (ret.e # "") <=> (ret.Service_Init = "error")
    /\ (ret.e = "") <=>
         /\ ~env.given.fieldErrors
         /\ \A j \in DOMAIN env.given.FanConfigurations :
              CrossFieldRules(env.given.FanConfigurations[j])

\* a config was validated whose first fan has no thresholds and got the
\* default table, and whose second fan has an UpThreshold above the critical
\* temperature; a config with the same UpThreshold twice would be rejected
C20_Witness ==
  /\ Validated
  /\ ret.e = ""
  /\ Len(env.c.FanConfigurations) = 2
  /\ env.given.FanConfigurations[1].TemperatureThresholds = << >>
  /\ env.c.FanConfigurations[1].TemperatureThresholds =
       Config_DefaultTemperatureThresholds
  /\ env.c.FanConfigurations[2].TemperatureThresholds[1].UpThreshold >
       env.c.CriticalTemperature

\* the static default tables
StaticTables == { StaticData(TRUE), StaticData(FALSE) }

\* the loop of ModelConfig_Validate gets to the thresholds of fan j: no member
\* is invalid, the fans before j are valid and the speed values of j are
SubstitutionReached(given, j) ==
  /\ ~given.fieldErrors
  /\ \A k \in 1..(j - 1) : CrossFieldRules(given.FanConfigurations[k])
  /\ CrossFieldRules([given.FanConfigurations[j] EXCEPT
                        !.TemperatureThresholds = << >>])

ModelConfigFreed ==
  /\ env.unit = "ModelConfig_Validate"
  /\ calls = << "ModelConfig_Validate", "ModelConfig_Free" >>

\* C21: when ModelConfig_Validate gets to a fan whose TemperatureThresholds is
\* empty it replaces it with an exact copy of the legacy default table if
\* LegacyTemperatureThresholdsBehaviour is true and of the normal default
\* table otherwise, which is so for every such fan when it succeeds; a table
\* that is not empty is left unchanged; each fan gets a copy of its own in a
\* new block, so that no static default table is written to or passed to
\* Mem_Free and ModelConfig_Free frees every block once.
C21_DefaultThresholds ==
  /\ Validated =>
       /\ \A j \in DOMAIN env.given.FanConfigurations :
            LET g == env.given.FanConfigurations[j].TemperatureThresholds
                t == env.c.FanConfigurations[j].TemperatureThresholds
            IN  /\ g # << >> =>
                     t = g /\ env.data[j] = Block("ModelConfig_FromJson", j)
                /\ g = << >> =>
                     /\ (t # << >>) = SubstitutionReached(env.given, j)
                     /\ ret.e = "" => t # << >>
                     /\ t # << >> =>
                          /\ t = IF env.given.LegacyTemperatureThresholdsBehaviour
                                 THEN Config_DefaultLegacyTemperatureThresholds
                                 ELSE Config_DefaultTemperatureThresholds
                          /\ env.data[j] \notin StaticTables \cup {NullData}
                          /\ env.data[j] \in env.written
                     /\ t = << >> => env.data[j] = NullData
       /\ \A j, k \in DOMAIN env.data :
            (j # k /\ env.data[j] # NullData) => env.data[j] # env.data[k]
       /\ env.written \cap StaticTables = {}
       /\ \A b \in env.written : \E j \in DOMAIN env.data : env.data[j] = b
  /\ ModelConfigFreed =>
       /\ Range(env.freed) \cap (StaticTables \cup {NullData}) = {}
       /\ \A j, k \in DOMAIN env.freed : j # k => env.freed[j] # env.freed[k]
       /\ Range(env.freed) = Range(env.data) \ {NullData}

\* a config with legacy behaviour was validated: its first fan had no
\* thresholds and holds a copy of the legacy table, its second fan holds the
\* table of the file, each in a block of its own
C21_Witness ==
  /\ Validated
  /\ ret.e = ""
  /\ env.given.LegacyTemperatureThresholdsBehaviour
  /\ Len(env.c.FanConfigurations) = 2
  /\ env.given.FanConfigurations[1].TemperatureThresholds = << >>
  /\ env.c.FanConfigurations[1].TemperatureThresholds =
       Config_DefaultLegacyTemperatureThresholds
  /\ env.given.FanConfigurations[2].TemperatureThresholds # << >>
  /\ env.c.FanConfigurations[2].TemperatureThresholds =
       env.given.FanConfigurations[2].TemperatureThresholds
  /\ env.data = << Block("copy_array_of_TemperatureThreshold", 1),
                   Block("ModelConfig_FromJson", 2) >>

\* the names of the four backends as they are written, and the names that
\* older versions wrote with the name that stands for the same backend now
CanonicalNames == {"ec_sys", "acpi_ec", "dev_port", "dummy"}
LegacyAliases ==
  { << "ec_sys_linux", "ec_sys" >>, << "ec_acpi", "acpi_ec" >>,
    << "ec_linux", "dev_port" >> }
ControllerTypes ==
  {"EmbeddedControllerType_ECSysLinux", "EmbeddedControllerType_ECSysLinuxACPI",
   "EmbeddedControllerType_ECLinux", "EmbeddedControllerType_ECDummy"}

\* the config of env has been written by ServiceConfig_Write
Written ==
  /\ calls = << "ServiceConfig_Init", "ServiceConfig_Write" >>
  /\ env.unit = "service_config"
  /\ ret.e = ""

\* the file loaded holds the controller name n and nothing else that keeps
\* it from being loaded
LoadedName(n) ==
  /\ Loaded
  /\ env.file.EmbeddedControllerType = n
  /\ ~Defective([env.file EXCEPT !.EmbeddedControllerType = Absent])

\* C22: EmbeddedControllerType names round-trip through the canonical form:
\* for each of the four backend types t,
\* EmbeddedControllerType_FromString(EmbeddedControllerType_ToString(t)) = t;
\* each name of an older version (ec_sys_linux, ec_acpi, ec_linux) is
\* accepted by ServiceConfig_Init and gives the same type as its canonical
\* name (ec_sys, acpi_ec, dev_port); ServiceConfig_Write writes canonical
\* names only, and the written file gives the type again; any other string
\* is rejected.
C22_ControllerNames ==
  /\ \A t \in ControllerTypes :
       /\ EmbeddedControllerType_ToString(t) \in CanonicalNames
       /\ EmbeddedControllerType_FromString(EmbeddedControllerType_ToString(t)) = t
  /\ \A n \in CanonicalNames :
       /\ EmbeddedControllerType_FromString(n) \in ControllerTypes
       /\ EmbeddedControllerType_ToString(EmbeddedControllerType_FromString(n)) = n
  /\ \A a \in LegacyAliases :
       /\ LoadedName(a[1]) =>
            /\ ret.e = ""
            /\ env.service_config.EmbeddedControllerType \in ControllerTypes
            /\ EmbeddedControllerType_ToString(
                 env.service_config.EmbeddedControllerType) = a[2]
       /\ LoadedName(a[2]) =>
            /\ ret.e = ""
            /\ EmbeddedControllerType_ToString(
                 env.service_config.EmbeddedControllerType) = a[2]
  /\ LoadedName("dummy") =>
       /\ ret.e = ""
       /\ env.service_config.EmbeddedControllerType =
            "EmbeddedControllerType_ECDummy"
  /\ (Loaded /\ env.file.parses /\
        env.file.EmbeddedControllerType \notin
          CanonicalNames \cup { a[1] : a \in LegacyAliases } \cup {Absent}) =>
       ret.e # ""
  /\ Written =>
       /\ env.file.EmbeddedControllerType \in CanonicalNames \cup {Absent}
       /\ env.file.EmbeddedControllerType = Absent <=>
            env.written.EmbeddedControllerType = "EmbeddedControllerType_Unset"
  /\ LoadedAgain =>
       env.service_config.EmbeddedControllerType =
         env.written.EmbeddedControllerType

\* the file with the name ec_acpi of an older version has been loaded as the
\* type that acpi_ec stands for
C22_Witness ==
  /\ LoadedName("ec_acpi")
  /\ ret.e = ""
  /\ env.service_config.EmbeddedControllerType =
       "EmbeddedControllerType_ECSysLinuxACPI"
  /\ env.service_config.EmbeddedControllerType =
       EmbeddedControllerType_FromString("acpi_ec")

\* the calls of a tick that reads in EC registers, and those that write
ReadsEC(step) == step[1] = "Fan_UpdateCurrentSpeed"
WritesEC(step) == step[1] \in {"ApplyRegisterWriteConfig", "Fan_ECFlush"}

\* the calls of a complete tick on n fans that applies the registers regs
\* and, if writes, flushes: call number p of the second loop is for fan
\* p \div per
CompleteTick(n, writes, regs) ==
  LET per == IF writes THEN 3 ELSE 2
      fns == << "FanTemperatureControl_UpdateFanTemperature",
                "Fan_SetTemperature", "Fan_ECFlush" >>
  IN  [j \in 1..n |-> << "Fan_UpdateCurrentSpeed", j - 1 >>] \o
      (IF writes
       THEN [j \in DOMAIN regs |-> << "ApplyRegisterWriteConfig", regs[j] >>]
       ELSE << >>) \o
      [p \in 1..(n * per) |-> << fns[((p - 1) % per) + 1], (p - 1) \div per >>]

\* C23: within one Service_Loop tick the current speed of every fan is read
\* first; then, unless read-only, the register-write configurations are
\* applied; then for each fan in index order its temperature is refreshed,
\* Fan_SetTemperature is called and, unless read-only, its pending write is
\* flushed before the next fan is processed.  A tick that fails ends there,
\* so its calls are the first of these.  No EC write of a tick precedes a
\* current-speed read of that tick.
C23_TickOrder ==
  /\ \E regs \in {DueRegisters(TRUE), DueRegisters(FALSE)} :
       IsPrefix(tickSteps, CompleteTick(Size(Service_Fans), ~read_only, regs))
  /\ (mainPc = "tick_unlock" /\ ~stepFailed) =>
       tickSteps = CompleteTick(Size(Service_Fans), ~read_only,
                                DueRegisters(re_init_required))
  /\ \A a, b \in DOMAIN tickSteps :
       (a < b /\ WritesEC(tickSteps[a])) => ~ReadsEC(tickSteps[b])
  /\ read_only => \A a \in DOMAIN tickSteps : ~WritesEC(tickSteps[a])
  /\ mainPc \in {"tick_rwc", "tick_fan"} =>
       \A i \in DOMAIN Service_Fans :
         \E a \in DOMAIN tickSteps :
           tickSteps[a] = << "Fan_UpdateCurrentSpeed", i >>
  /\ ~InTickBody /\ mainPc # "tick_unlock" => tickSteps = << >>

\* a tick on two fans has read both speeds, applied the configurations of
\* the registers 1 and 3 and then processed and flushed fan 0 and fan 1
C23_Witness ==
  /\ mainPc = "tick_unlock"
  /\ ~stepFailed
  /\ ~read_only
  /\ tickSteps =
       << << "Fan_UpdateCurrentSpeed", 0 >>, << "Fan_UpdateCurrentSpeed", 1 >>,
          << "ApplyRegisterWriteConfig", 1 >>, << "ApplyRegisterWriteConfig", 3 >>,
          << "FanTemperatureControl_UpdateFanTemperature", 0 >>,
          << "Fan_SetTemperature", 0 >>, << "Fan_ECFlush", 0 >>,
          << "FanTemperatureControl_UpdateFanTemperature", 1 >>,
          << "Fan_SetTemperature", 1 >>, << "Fan_ECFlush", 1 >> >>

\* the main thread holds Service_Lock exactly from pthread_mutex_lock to
\* pthread_mutex_unlock in Service_Loop, a worker exactly from
\* pthread_mutex_lock to pthread_mutex_unlock in Server_Handle_Client
HeldInside ==
  /\ (Service_Lock = MainThread) <=> (InTickBody \/ mainPc = "tick_unlock")
  /\ ProcessAlive =>
       \A x \in Workers : (Service_Lock = WorkerThread(x)) <=> InHandler(x)

\* the thread that holds Service_Lock can take a step: it waits for nothing
HolderRuns ==
  /\ Service_Lock = MainThread => ENABLED MainNext
  /\ \A x \in Workers :
       (Serving /\ Service_Lock = WorkerThread(x)) =>
         ENABLED Server_Handle_Client(x)

\* C24: lock discipline: Service_Loop and a connection worker hold
\* Service_Lock exactly between their pthread_mutex_lock and their
\* pthread_mutex_unlock, on every path, so that the lock is released once
\* before the thread sleeps, exits the process or returns; the lock passes
\* from one thread to another only through a release; no thread requests the
\* lock while it holds it (Service_WriteTargetFanSpeedsToConfig, called with
\* the lock held, does not lock), so the holder can always go on; hence a
\* thread that waits for the lock gets it, or the process ends.
C24_LockDiscipline ==
  /\ [](HeldInside /\ HolderRuns)
  /\ [][Service_Lock' # Service_Lock =>
          (Service_Lock = Unlocked \/ Service_Lock' = Unlocked)]_vars
  /\ \A x \in Workers : (w[x].pc = "lock") ~> (w[x].pc # "lock")
  /\ (mainPc = "loop") ~> (mainPc # "loop")

\* a worker waits for the lock while Service_Loop holds it after a
\* set-fan-speed of an earlier client was answered
C24_Witness ==
  /\ \E x \in Workers : w[x].pc = "lock" /\ w[x].cmd = "set-fan-speed"
  /\ Service_Lock = MainThread
  /\ mainPc = "tick_fan"
  /\ persisted # Arr(<<50, -1>>)

\* the operations on the EC that end a reset operation: the write of a
\* register, the read that failed in its place, the reset of a fan
Ends(o) ==
  \/ o.op \in {"WriteByte", "Fan_ECReset"}
  \/ o.op = "ReadByte" /\ o.e # err_success

\* the reset operations a record of EC operations holds, in order
ResetOperations(ops) ==
  LET ends == SelectSeq(ops, Ends)
  IN  [j \in DOMAIN ends |->
         << IF ends[j].op = "Fan_ECReset" THEN "fan" ELSE "register",
            ends[j].at >>]

\* the reset operations of one attempt on  fans  fans
ResetAttempt(fans) ==
  [j \in DOMAIN ResetRegisterWriteConfigs |->
     << "register", ResetRegisterWriteConfigs[j].Register >>] \o
  [j \in 1..fans |-> << "fan", j - 1 >>]

\* the operation j of the record is what ApplyRegisterWriteConfig does with
\* (Register, ResetValue, ResetWriteMode) of a configuration with
\* ResetRequired
ResetWrites(ops, j) ==
  \E k \in DOMAIN RegisterWriteConfigurations :
    LET cfg == RegisterWriteConfigurations[k]
    IN  /\ cfg.ResetRequired
        /\ ops[j].at = cfg.Register
        /\ CASE ops[j].op = "ReadByte" -> cfg.ResetWriteMode # "Set"
             [] cfg.ResetWriteMode = "Set" -> ops[j].value = cfg.ResetValue
             [] OTHER ->
                  /\ j > 1
                  /\ ops[j - 1].op = "ReadByte"
                  /\ ops[j - 1].at = cfg.Register
                  /\ ops[j - 1].e = err_success
                  /\ ops[j].value =
                       IF cfg.ResetWriteMode = "And"
                       THEN BitAnd(cfg.ResetValue, ops[j - 1].value)
                       ELSE BitOr(cfg.ResetValue, ops[j - 1].value)

\* C25: ResetEC makes three attempts, and each attempt applies
\* (Register, ResetValue, ResetWriteMode) of every register write
\* configuration with ResetRequired, in order, and then resets every fan,
\* whatever failed before in the attempt; no operation of a reset touches
\* the register of a configuration without ResetRequired.
C25_ResetEC ==
  (env.unit = "ResetEC" /\ calls = << "ResetEC" >>) =>
    /\ ResetOperations(env.ops) =
         ResetAttempt(env.fans) \o ResetAttempt(env.fans) \o
         ResetAttempt(env.fans)
    /\ \A j \in DOMAIN env.ops :
         env.ops[j].op # "Fan_ECReset" => ResetWrites(env.ops, j)

\* ResetEC has run on two fans while the write of the first register, the
\* read of the last and the reset of the first fan fail in every attempt
C25_Witness ==
  /\ env.unit = "ResetEC"
  /\ calls = << "ResetEC" >>
  /\ env.fans = 2
  /\ ~env.transient
  /\ env.writeFails = {1}
  /\ env.readFails = {3}
  /\ env.fanFails = {0}
  /\ Len(env.ops) = 12

\* the server thread accepts no connection in this step
NoAccept == \A x \in Workers : w[x].pc = "none" => w'[x].pc = "none"

\* a worker that ends in this step has sent its reply and closed its socket
WorkersComplete ==
  \A x \in Workers :
    (w[x].pc # "none" /\ w'[x].pc = "none") =>
      /\ w[x].pc = "closed"
      /\ Closes(w[x].socket) = 1

\* C26 as stated: once quit is set the server thread accepts no connection
\* any more, and a worker that is running is not cancelled: it ends only
\* after it has sent its reply and closed its socket
C26_Original ==
  [][quit => (NoAccept /\ WorkersComplete)]_vars

\* the process has ended after a Service_Init that succeeded
Stopped == mainPc \in {"exit_failure", "done"}

\* Service_Cleanup went through case Initialized_4_Embedded_Controller,
\* where ResetEC() precedes ec->Close(), and only then through the cases that
\* free the fan array and the model config
ResetBeforeRelease ==
  \E j \in DOMAIN teardownLog :
    /\ teardownLog[j] = 4
    /\ Service_Cleanup_ResetsEC
    /\ \A k \in DOMAIN teardownLog : teardownLog[k] \in {3, 2} => j < k

\* C27 as stated: when the daemon has stopped after a successful Service_Init
\* that was not read-only, by Service_Cleanup or by the exit after 100 failed
\* ticks, the EC was reset before the EC was closed and the fan array and the
\* model config were freed
C27_Original == (Stopped /\ ~read_only) => ResetBeforeRelease

\* the set-fan-speed of worker x has returned an error, which
\* Server_Handle_Client sends as the Error reply after the unlock
SetFanFailed(x) ==
  /\ w[x].pc = "unlock"
  /\ w[x].cmd = "set-fan-speed"
  /\ w[x].err # ""

\* C28 as stated: when a set-fan-speed is answered with an Error reply,
\* whatever the cause, the failure to persist TargetFanSpeeds or to send the
\* OK reply included, the mode and the requested speed of every fan are what
\* they were before the request (and no EC write was issued for it)
C28_Original ==
  \A x \in Workers :
    SetFanFailed(x) => ModeRequested(Service_Fans) = w[x].before[1]

\* C29 as stated: no thread does socket I/O with a client while it holds
\* Service_Lock: a worker that holds the lock is not receiving and has sent
\* no reply, OK, status or Error, on its socket
C29_Original ==
  \A x \in Workers :
    (ProcessAlive /\ Service_Lock = WorkerThread(x)) =>
      /\ w[x].pc # "recv"
      /\ w[x].sent = << >>
      /\ w[x].socket = << >>

\* C30 as stated: every index i that Service_Init passes to
\* Fan_SetFixedSpeed or Fan_SetAutoSpeed is the index of a configured fan,
\* also when the loaded TargetFanSpeeds has more entries than the model
\* config has fans: &Service_Fans.data[i] is never formed for i outside the
\* fan array
C30_Original == "fan_index_out_of_bounds" \notin ub

\* the calls of unlink() and of close() in a record of operations
Unlinks(ops) == SelectSeq(ops, LAMBDA o : o[1] = "unlink")
Closed(ops) == SelectSeq(ops, LAMBDA o : o[1] = "close")

\* Server_Close leaves Server_FD at -1 and closes and unlinks at most once,
\* however often it is called
ClosesOnce ==
  /\ "Server_Close" \in Range(calls) => env.Server_FD = -1
  /\ Len(Unlinks(env.ops)) <= 1
  /\ Len(Closed(env.ops)) <= 1

\* C31 as stated: Server_Close removes the socket path only when this
\* server created it: the socket file of another instance, found at the path
\* by a Server_Init that fails at bind, is never unlinked; after a
\* Server_Close Server_FD is -1 and a second Server_Close neither closes nor
\* unlinks
C31_Original ==
  (env.unit = "Server" /\ calls # << >>) =>
    /\ \A j \in DOMAIN env.ops :
         env.ops[j][1] = "unlink" => env.ops[j][2] # "other"
    /\ env.found = "other" => SocketPath(env) = "other"
    /\ ClosesOnce

\* Service_Loop judges the tick in this step
Judged == mainPc = "tick_judge" /\ mainPc' # "tick_judge"

\* C32 as stated: a tick in which no step reported an error is counted as a
\* success (the failure counter is 0 after it and the loop goes on), for
\* every configuration, a read-only service and a model config without fans
\* included; whether a tick counts as a failure depends only on the results
\* of the steps of that tick
C32_Original ==
  [][Judged =>
       IF stepFailed THEN failures' = failures + 1
       ELSE failures' = 0 /\ mainPc' = "loop"]_vars

\* the part of C32 that holds: when a step of the tick was executed and set
\* e, the tick is judged by the results of its steps
JudgedBySteps ==
  [][(Judged /\ e # "undef") =>
       IF stepFailed THEN failures' = failures + 1
       ELSE failures' = 0 /\ mainPc' = "loop"]_vars

\* the steps of a tick that can fail
CanFail ==
  {"Fan_UpdateCurrentSpeed", "ApplyRegisterWriteConfig",
   "FanTemperatureControl_UpdateFanTemperature", "Fan_ECFlush"}

\* the steps of the second loop of a tick
SecondLoop ==
  {"FanTemperatureControl_UpdateFanTemperature", "Fan_SetTemperature",
   "Fan_ECFlush"}

\* the tick has made the call fn for fan or register at among its first n
Called(fn, at, n) ==
  \E a \in 1..n : tickSteps[a] = << fn, at >>

\* a step of the tick in progress has failed and the tick is at its end
TickFailed == mainPc = "tick_unlock" /\ stepFailed

\* the tick has failed in its last call, the step  last : no call follows
\* it, so that nothing of a later phase and nothing for a later fan was done
EndsAt(last) ==
  LET n == Len(tickSteps)
  IN  /\ last[1] \in CanFail
      /\ last[1] = "Fan_UpdateCurrentSpeed" =>
           \A a \in 1..n : tickSteps[a][1] = "Fan_UpdateCurrentSpeed"
      /\ last[1] = "ApplyRegisterWriteConfig" =>
           /\ \A a \in 1..n : tickSteps[a][1] \notin SecondLoop
           /\ Service_Loop_Applies(registersWritten) =
                SelectSeq(SubSeq(tickSteps, 1, n - 1),
                          LAMBDA st : st[1] = "ApplyRegisterWriteConfig")
      /\ last[1] \in SecondLoop =>
           \A a \in 1..n :
             tickSteps[a][1] \in SecondLoop => tickSteps[a][2] <= last[2]
      /\ \A i \in DOMAIN Service_Fans :
           /\ Called("Fan_SetTemperature", i, n) =>
                \A j \in DOMAIN Service_Fans :
                  Called("Fan_UpdateCurrentSpeed", j, n - 1)
           /\ ~Called("Fan_SetTemperature", i, n) =>
                \/ Service_Fans[i] = tickBefore[i]
                \/ /\ Called("Fan_UpdateCurrentSpeed", i, n - 1)
                   /\ \E r \in SpeedReadings :
                        Service_Fans[i] =
                          Fan_UpdateCurrentSpeed(tickBefore[i], r)

CleanedAgain == cleanupRet = "caller"

\* what a teardown action of Service_Cleanup changes
TornDown == << res, filt, teardownLog, fansFreed, TargetFanSpeeds, ecLog >>

\* C34: Service_Cleanup is idempotent: it leaves Service_State at 0,
\* whatever stage it was entered with, and a Service_Cleanup entered with
\* Service_State = 0 executes no case of the switch; the cleanup of the
\* caller after the cleanup inside a failed Service_Init releases and resets
\* nothing (no filter, sensor, EC, fan array or config), so that nothing is
\* released twice and no stage is torn down twice.
C34_Idempotent ==
  /\ [](/\ \A r \in ResNames : res[r] # "double"
        /\ \A i \in FanIdx : filt[i] # "double"
        /\ \A a, b \in DOMAIN teardownLog :
             teardownLog[a] = teardownLog[b] => a = b
        /\ (mainPc \in {"init_failed", "cleaned"}) => Service_State = 0
        /\ \A c \in 0..LastStage :
             Service_Cleanup_Cases(Service_Cleanup_State(c)) = << >>)
  /\ [][CleanedAgain' /\ ~CleanedAgain =>
          UNCHANGED TornDown /\ Service_State' = 0]_vars

\* the caller has called Service_Cleanup again after a Service_Init that
\* failed in the last stage and tore down all six
C34_Witness ==
  /\ CleanedAgain
  /\ mainPc = "init_failed"
  /\ teardownLog = Descending(LastStage)
  /\ res["ec"] = "freed"

=============================================================================
